---- MODULE Spec2Model ----
(***************************************************************************)
(* DYMS tree-walking evaluator: environments, values and control-flow      *)
(* sentinels, driven statement by statement as evalProgram drives them.    *)
(*                                                                         *)
(* Numbers are heap cells (the evaluator holds *NumberVal pointers and     *)
(* writes through them), so a number value is a reference into `cells`.    *)
(* Integers stand for the float64 payloads; the statement pools only use   *)
(* whole numbers and exact quotients.                                      *)
(***************************************************************************)
EXTENDS Integers, Sequences, FiniteSets, TLC

VARIABLES
  envs,     \* heap of Environment objects; envs[1] is GlobalEnv
  cells,    \* heap of NumberVal objects: cells[a] is the Value field
  funs,     \* heap of UserFunction objects
  out,      \* lines written by the printing built-ins
  status,   \* "run" | "done" | "error" | "panic" | "hang"
  result,   \* lastResult of evalProgram
  msg,      \* message of the error or panic that ended the program
  last,     \* the top-level statement evaluated last
  pre,      \* envs, cells and out as they were before that statement
  steps,    \* number of top-level statements evaluated
  scen,     \* which statement pool the program is drawn from
  lexer,    \* Tokenize: the locals of one call and how it ended
  parser,   \* ParseProgram: the Parser, the program body and how it ended
  binop,    \* one binary operation, as the evaluator and as the VM do it
  vm,       \* the VM: stack, sp, frames, globals, and how Run ended
  hybrid    \* the HybridEngine: its counters, its mode and the node it ran last

\* The variables of the evaluator, and those of the other components.
interp == <<envs, cells, funs, out, status, result, msg, last, pre, steps, scen>>
machines == <<lexer, parser, binop, vm, hybrid>>
vars == <<envs, cells, funs, out, status, result, msg, last, pre, steps, scen,
          lexer, parser, binop, vm, hybrid>>

----------------------------------------------------------------------------
(* Bounds *)

MaxSteps == 3      \* top-level statements per program
MaxCallSteps == 7  \* the same, for the programs that call closures repeatedly
MaxLoopSteps == 2  \* the same, for the programs made of large statements
MaxEnvSteps == 5   \* calls made on the Environment API in one run
MaxTokens == 4     \* tokens of the sequences given to ParseProgram
MaxOperand == 2    \* the largest number among the operands of a binary operation
MaxVMSteps == 120  \* passes of the loop of VM.Run that are followed
MaxSrcLen == 3     \* characters of the source text given to Tokenize
MaxRange == 3      \* the largest N of the for range(i, N) loops
MaxFuel == 12       \* while-loop iterations before a run counts as hung

----------------------------------------------------------------------------
(* Runtime values (runtime/value.go) *)

NilVal == [t |-> "nil"]
NullVal == [t |-> "null"]
NumberVal(a) == [t |-> "num", a |-> a]
StringVal(s) == [t |-> "str", s |-> s]
BooleanVal(b) == [t |-> "bool", b |-> b]
UserFunction(i) == [t |-> "ufn", f |-> i]
Function(name) == [t |-> "builtin", name |-> name]
MapVal(name) == [t |-> "map", m |-> name]
ReturnVal(v) == [t |-> "ret", inner |-> v]
BreakVal == [t |-> "brk"]
ContinueVal == [t |-> "cont"]

----------------------------------------------------------------------------
(* AST nodes (ast/ast.go) *)

Num(n) == [k |-> "num", n |-> n]
Str(s) == [k |-> "str", s |-> s]
Bool(b) == [k |-> "bool", b |-> b]
Id(x) == [k |-> "id", sym |-> x]
Bin(op, l, r) == [k |-> "bin", op |-> op, left |-> l, right |-> r]
Unary(op, x, prefix) == [k |-> "unary", op |-> op, operand |-> x, prefix |-> prefix]
Decl(x, e, c) == [k |-> "decl", sym |-> x, value |-> e, constant |-> c]
Let(x, e) == Decl(x, e, FALSE)
Const(x, e) == Decl(x, e, TRUE)
Asg(x, e) == [k |-> "asg", assignee |-> Id(x), value |-> e]
Call(f, args) == [k |-> "call", callee |-> f, args |-> args]
Block(ss) == [k |-> "block", stmts |-> ss]
NoBlock == [k |-> "none"]
If(c, t, e) == [k |-> "if", cond |-> c, cons |-> t, alt |-> e]
While(c, b) == [k |-> "while", cond |-> c, body |-> b]
For(i, r, b) == [k |-> "for", sym |-> i, range |-> r, body |-> b]
Funct(name, ps, b) == [k |-> "fn", name |-> name, params |-> ps, body |-> b]
Return(e) == [k |-> "return", value |-> e]
Break == [k |-> "break"]
Continue == [k |-> "continue"]
Try(t, ev, c) == [k |-> "try", tryBlock |-> t, errorVar |-> ev, catchBlock |-> c]
Import(path, alias) == [k |-> "import", path |-> path, alias |-> alias]
Member(obj, prop) == [k |-> "member", object |-> obj, property |-> prop]
Program(body) == [k |-> "program", body |-> body]
\* Not a node of the language: a call, from outside the evaluator, of the
\* evaluator's function fn on node.
Direct(fn, node) == [k |-> "direct", fn |-> fn, node |-> node]

----------------------------------------------------------------------------
(* The evaluator's working state: the heaps, the output, and the            *)
(* (RuntimeVal, *Error) pair a call returns.  ctl is "ok" (err == nil),     *)
(* "err" (an *Error was returned), "panic" (a Go panic unwinds the whole    *)
(* process: nothing recovers) or "hang" (a loop ran out of fuel).           *)

Ok(st, v) == [st EXCEPT !.res = v]
Err(st, m) == [st EXCEPT !.ctl = "err", !.msg = m, !.res = NilVal]
Panic(st, m) == [st EXCEPT !.ctl = "panic", !.msg = m, !.res = NilVal]
Hang(st) == [st EXCEPT !.ctl = "hang", !.msg = "no more fuel", !.res = NilVal]

NoVars == [n \in {} |-> NilVal]
Put(f, key, v) == [n \in (DOMAIN f) \cup {key} |-> IF n = key THEN v ELSE f[n]]

NewEnvironment(st, parent) ==
  [st EXCEPT !.envs = Append(@, [parent |-> parent, variables |-> NoVars,
                                 constants |-> {}])]

\* The environment NewEnvironment has just returned.
Newest(st) == Len(st.envs)

DeclareVar(st, env, name, value, isConstant) ==
  IF name \in DOMAIN st.envs[env].variables
  THEN Panic(st, "Cannot declare variable. It already exists.")
  ELSE [st EXCEPT !.envs[env].variables = Put(@, name, value),
                  !.envs[env].constants = IF isConstant THEN @ \cup {name} ELSE @,
                  !.res = value]

RECURSIVE Resolve(_, _, _)
\* 0 stands for the nil *Environment.
Resolve(es, env, name) ==
  IF name \in DOMAIN es[env].variables THEN env
  ELSE IF es[env].parent = 0 THEN 0
  ELSE Resolve(es, es[env].parent, name)

LookupVar(es, env, name) ==
  LET target == Resolve(es, env, name)
  IN IF target = 0 THEN NilVal ELSE es[target].variables[name]

\* An assignment that writes the binding into the scope the call is made on.
AssignVarInCallingScope(st, env, name, value) ==
  IF name \in st.envs[env].constants
  THEN Panic(st, "Cannot assign to constant variable.")
  ELSE IF Resolve(st.envs, env, name) = 0
  THEN Panic(st, "Cannot assign to undefined variable.")
  ELSE [st EXCEPT !.envs[env].variables = Put(@, name, value), !.res = value]

\* The constant test is made on the scope the call is made on, before the
\* defining scope is resolved.
AssignVar(st, env, name, value) ==
  IF name \in st.envs[env].constants
  THEN Panic(st, "Cannot assign to constant variable.")
  ELSE LET target == Resolve(st.envs, env, name)
       IN IF target = 0
          THEN Panic(st, "Cannot assign to undefined variable.")
          ELSE [st EXCEPT !.envs[target].variables = Put(@, name, value),
                          !.res = value]

\* sync.Pool.Get with nothing ever Put back: always a new object.
fastNumber(st, n) ==
  [st EXCEPT !.cells = Append(@, n), !.res = NumberVal(Len(st.cells) + 1)]

isTruthy(val, cs) ==
  IF val.t = "nil" THEN FALSE
  ELSE IF val.t = "bool" THEN val.b
  ELSE IF val.t = "num" THEN cs[val.a] # 0
  ELSE IF val.t = "str" THEN val.s # ""
  ELSE TRUE

----------------------------------------------------------------------------
(* Printing built-ins (runtime/outputingpritier.go and the init function)  *)

\* Pretty on the values the evaluator modelled here can hand it; the
\* property list of a map is not modelled and no pool prints one.
Pretty(v, cs) ==
  CASE v.t = "nil" -> "null"
    [] v.t = "num" -> ToString(cs[v.a])
    [] v.t = "str" -> "\"" \o v.s \o "\""
    [] v.t = "bool" -> IF v.b THEN "true" ELSE "false"
    [] v.t = "builtin" -> "[function]"
    [] v.t = "ufn" -> "[function]"
    [] v.t = "null" -> "null"
    [] OTHER -> "{...Map}"

\* One println line: strings raw (the pools use no escape sequences, on
\* which Unescape changes nothing), other values through formatValue.
printlnLine(v, cs) ==
  "[println]: " \o (IF v.t = "str" THEN v.s ELSE Pretty(v, cs))

RECURSIVE printAll(_, _, _, _)
printAll(name, args, i, st) ==
  IF i > Len(args) THEN Ok(st, NilVal)
  ELSE LET line == CASE name = "println" -> printlnLine(args[i], st.cells)
                     [] name = "logln" -> "[logln]: " \o Pretty(args[i], st.cells) \o " "
                     [] OTHER -> Pretty(args[i], st.cells)
       IN printAll(name, args, i + 1, [st EXCEPT !.out = Append(@, line)])

\* The functions of the fmaths module that have a math opcode, and the
\* number of arguments each reads.
MathNames == {"pow", "sqrt", "sin", "cos", "log", "exp", "abs", "floor", "ceil"}
mathArity(name) == IF name = "pow" THEN 2 ELSE 1

RECURSIVE power(_, _)
power(x, y) == IF y = 0 THEN 1 ELSE x * power(x, y - 1)

\* math.Pow, math.Sqrt, math.Sin, math.Cos, math.Log, math.Exp, math.Abs,
\* math.Floor and math.Ceil on the integers their results are integers at;
\* the numbers of the model are integers, and none is applied elsewhere.
mathValue(name, x, y) ==
  CASE name = "pow" /\ y >= 0 -> power(x, y)
    [] name = "sqrt" /\ (\E r \in 0..x : r * r = x) -> CHOOSE r \in 0..x : r * r = x
    [] name = "sin" /\ x = 0 -> 0
    [] name = "cos" /\ x = 0 -> 1
    [] name = "log" /\ x = 1 -> 0
    [] name = "exp" /\ x = 0 -> 1
    [] name = "abs" -> IF x < 0 THEN 0 - x ELSE x
    [] name \in {"floor", "ceil"} -> x

\* What a math function does with its operands once it has them: the type
\* assertions, the range checks and the result.
mathApply(name, xs, cs) ==
  IF \E i \in 1..Len(xs) : xs[i].t # "num"
  THEN [c |-> "err",
        m |-> name \o (IF name = "pow" THEN " requires numeric arguments"
                                        ELSE " requires numeric argument")]
  ELSE IF name = "sqrt" /\ cs[xs[1].a] < 0
  THEN [c |-> "err", m |-> "sqrt of negative number"]
  ELSE IF name = "log" /\ cs[xs[1].a] <= 0
  THEN [c |-> "err", m |-> "log of non-positive number"]
  ELSE [c |-> "num",
        n |-> mathValue(name, cs[xs[1].a],
                        IF name = "pow" THEN cs[xs[2].a] ELSE 0)]

\* A function of the fmaths module called with args.
fmathsCall(name, args, st) ==
  IF Len(args) < mathArity(name)
  THEN Err(st, name \o (IF name = "pow" THEN " requires 2 arguments"
                                          ELSE " requires 1 argument"))
  ELSE LET o == mathApply(name, SubSeq(args, 1, mathArity(name)), st.cells)
       IN IF o.c = "err" THEN Err(st, o.m)
          ELSE [st EXCEPT !.cells = Append(@, o.n),
                          !.res = NumberVal(Len(st.cells) + 1)]

Builtins == {"systemout", "println", "printf", "logln", "pretty", "prettyml", "printlnml"}

\* A call of a host function.  printf, prettyml and printlnml are bound in
\* GlobalEnv but their formatting is not modelled; no pool calls them, nor
\* the functions of the time module or the rest of fmaths.
callBuiltin(name, args, st) ==
  CASE name \in {"println", "logln", "systemout"} -> printAll(name, args, 1, st)
    [] name \in MathNames -> fmathsCall(name, args, st)
    [] name = "pretty" ->
         IF Len(args) < 1 THEN Ok(st, StringVal(""))
         ELSE Ok(st, StringVal(Pretty(args[1], st.cells)))
    [] OTHER -> Ok(st, NilVal)

----------------------------------------------------------------------------
(* evalBinaryExpr, after both operands are evaluated.  The result is       *)
(* [c |-> "num", n], [c |-> "bool", b], [c |-> "str", s], [c |-> "err", m] *)
(* or [c |-> "panic", m].                                                  *)

NumericOps == {"+", "-", "*", "/", "%", "==", "!=", "<", "<=", ">", ">="}

\* int(x) % int(y) truncates towards zero in Go.
GoMod(x, y) ==
  LET ax == IF x < 0 THEN -x ELSE x
      ay == IF y < 0 THEN -y ELSE y
  IN IF x < 0 THEN -(ax % ay) ELSE ax % ay

\* Numbers of the model are integers: the quotient is the code's float64
\* quotient only where y divides x.
binaryNumbers(op, x, y) ==
  CASE op = "+" -> [c |-> "num", n |-> x + y]
    [] op = "-" -> [c |-> "num", n |-> x - y]
    [] op = "*" -> [c |-> "num", n |-> x * y]
    [] op = "/" -> IF y = 0 THEN [c |-> "err", m |-> "division by zero"]
                   ELSE [c |-> "num", n |-> x \div y]
    [] op = "%" -> IF y = 0 THEN [c |-> "err", m |-> "modulo by zero"]
                   ELSE [c |-> "num", n |-> GoMod(x, y)]
    [] op = "==" -> [c |-> "bool", b |-> x = y]
    [] op = "!=" -> [c |-> "bool", b |-> x # y]
    [] op = "<" -> [c |-> "bool", b |-> x < y]
    [] op = "<=" -> [c |-> "bool", b |-> x <= y]
    [] op = ">" -> [c |-> "bool", b |-> x > y]
    [] op = ">=" -> [c |-> "bool", b |-> x >= y]

\* rightVal.String() of the string concatenation.
ValString(v, cs) ==
  CASE v.t = "num" -> ToString(cs[v.a])
    [] v.t = "str" -> v.s
    [] v.t = "bool" -> IF v.b THEN "true" ELSE "false"
    [] v.t = "null" -> "null"
    [] v.t = "map" -> "{...Map}"
    [] OTHER -> "[function]"

\* The tail of evalBinaryExpr: null comparisons, boolean equality, mixed
\* types, and the final error, whose message calls Type() on both operands.
binaryRest(op, l, r) ==
  IF l.t = "null" /\ op \in {"==", "!="}
  THEN [c |-> "bool", b |-> (op = "==") = (r.t = "null")]
  ELSE IF r.t = "null" /\ op \in {"==", "!="}
  THEN [c |-> "bool", b |-> op = "!="]
  ELSE IF l.t = "bool" /\ r.t = "bool" /\ op \in {"==", "!="}
  THEN [c |-> "bool", b |-> (op = "==") = (l.b = r.b)]
  ELSE IF op = "==" THEN [c |-> "bool", b |-> FALSE]
  ELSE IF op = "!=" THEN [c |-> "bool", b |-> TRUE]
  ELSE IF l.t = "nil" \/ r.t = "nil"
  THEN [c |-> "panic", m |-> "nil pointer dereference"]
  ELSE [c |-> "err", m |-> "unknown operator for types"]

binaryOp(op, l, r, cs) ==
  IF l.t = "num" /\ r.t = "num" /\ op \in NumericOps
  THEN binaryNumbers(op, cs[l.a], cs[r.a])
  ELSE IF l.t = "bool" /\ r.t = "bool" /\ op \in {"&&", "||"}
  THEN [c |-> "bool", b |-> IF op = "&&" THEN l.b /\ r.b ELSE l.b \/ r.b]
  ELSE IF l.t = "str" /\ r.t = "str"
  THEN CASE op = "+" -> [c |-> "str", s |-> l.s \o r.s]
         [] op = "==" -> [c |-> "bool", b |-> l.s = r.s]
         [] op = "!=" -> [c |-> "bool", b |-> l.s # r.s]
         [] OTHER -> [c |-> "err", m |-> "unknown operator for string operands"]
  ELSE IF l.t = "str" /\ op = "+"
  THEN IF r.t = "nil" THEN [c |-> "panic", m |-> "nil pointer dereference"]
       ELSE [c |-> "str", s |-> l.s \o ValString(r, cs)]
  ELSE binaryRest(op, l, r)

\* The value evalBinaryExpr returns for an outcome of binaryOp.
binaryResult(st, o) ==
  CASE o.c = "num" -> fastNumber(st, o.n)
    [] o.c = "bool" -> Ok(st, BooleanVal(o.b))
    [] o.c = "str" -> Ok(st, StringVal(o.s))
    [] o.c = "err" -> Err(st, o.m)
    [] OTHER -> Panic(st, o.m)

----------------------------------------------------------------------------
(* Evaluate and its helpers (the AST evaluator)                             *)

\* The pattern `x = x + <something>` the fast paths test for.
isSelfAdd(stmt) ==
  /\ stmt.k = "asg"
  /\ stmt.assignee.k = "id"
  /\ stmt.value.k = "bin"
  /\ stmt.value.left.k = "id"
  /\ stmt.value.left.sym = stmt.assignee.sym
  /\ stmt.value.op = "+"

\* The statement loop without its test for ReturnVal.
blockUnwindsNoReturn(v) == v.t \in {"brk", "cont"}

\* The statement loop without its tests for BreakVal and ContinueVal.
blockUnwindsNoLoopSentinel(v) == v.t \in {"ret"}

\* The sentinel tests of the statement loop in evalBlockStatement.
blockUnwinds(v) == v.t \in {"ret", "brk", "cont"}

\* A call environment chained to the caller's scope (dynamic scoping).
callEnvParentIsCaller(f, scope) == scope

\* The parent of the environment a user function's body runs in.
callEnvParent(f, scope) == f.env

\* builtinModules: the registry evalImport consults, the functions of
\* each module and its numbers (pi, e and phi, kept as their names).
Modules == {"time", "fmaths"}
ModuleFunctions(path) ==
  IF path = "time" THEN {"now", "millis", "nanos"}
  ELSE MathNames \cup {"tan", "log10", "log2", "round", "min", "max"}
ModuleNumbers(path) == IF path = "fmaths" THEN {"pi", "e", "phi"} ELSE {}

RECURSIVE Evaluate(_, _, _), evalCallExpr(_, _, _), evalArgs(_, _, _, _, _),
          bindParams(_, _, _, _, _), evalAssignmentExpr(_, _, _),
          evalBlockStatement(_, _, _), blockLoop(_, _, _, _),
          evalIfStatement(_, _, _), evalForStatement(_, _, _),
          forLoop(_, _, _, _, _, _), evalWhileStatement(_, _, _),
          evalBinaryExpr(_, _, _), evalUnaryExpr(_, _, _),
          evalTryStatement(_, _, _), evalProgram(_, _, _),
          programLoop(_, _, _, _)

evalArgs(args, i, scope, st, acc) ==
  IF i > Len(args) THEN [st EXCEPT !.args = acc]
  ELSE LET s1 == Evaluate(args[i], scope, st)
       IN IF s1.ctl # "ok" THEN s1
          ELSE evalArgs(args, i + 1, scope, s1, Append(acc, s1.res))

bindParams(params, idx, args, callEnv, st) ==
  IF idx > Len(params) THEN st
  ELSE LET val == IF idx <= Len(args) THEN args[idx] ELSE NullVal
           s1 == DeclareVar(st, callEnv, params[idx], val, FALSE)
       IN IF s1.ctl # "ok" THEN s1
          ELSE bindParams(params, idx + 1, args, callEnv, s1)

evalCallExpr(s, scope, st) ==
  LET s1 == Evaluate(s.callee, scope, st)
  IN IF s1.ctl # "ok" THEN s1
     ELSE LET fn == s1.res
              s2 == evalArgs(s.args, 1, scope, s1, <<>>)
          IN IF s2.ctl # "ok" THEN s2
             ELSE CASE fn.t = "builtin" -> callBuiltin(fn.name, s2.args, s2)
                    [] fn.t = "ufn" ->
                         LET f == s2.funs[fn.f]
                             s3 == NewEnvironment(s2, callEnvParent(f, scope))
                             callEnv == Newest(s3)
                             s4 == bindParams(f.params, 1, s2.args, callEnv, s3)
                             s5 == IF s4.ctl # "ok" THEN s4
                                   ELSE evalBlockStatement(f.body, callEnv, s4)
                         IN IF s5.ctl # "ok" THEN s5
                            ELSE IF s5.res.t = "ret" THEN Ok(s5, s5.res.inner)
                            ELSE s5
                    [] OTHER -> Err(s2, "not a function")

evalAssignmentExpr(node, scope, st) ==
  IF node.assignee.k # "id" THEN Err(st, "invalid assignment target")
  ELSE
  LET sym == node.assignee.sym
      current == LookupVar(st.envs, scope, sym)
      general == LET s1 == Evaluate(node.value, scope, st)
                 IN IF s1.ctl # "ok" THEN s1
                    ELSE AssignVar(s1, scope, sym, s1.res)
  IN IF isSelfAdd(node) /\ node.value.right.k = "num" /\ current.t = "num"
     THEN [st EXCEPT !.cells[current.a] = @ + node.value.right.n, !.res = current]
     ELSE IF isSelfAdd(node) /\ node.value.right.k = "id" /\ current.t = "num"
     THEN LET rightVal == LookupVar(st.envs, scope, node.value.right.sym)
          IN IF rightVal.t = "num"
             THEN [st EXCEPT !.cells[current.a] = @ + st.cells[rightVal.a],
                             !.res = current]
             ELSE general
     ELSE general

blockLoop(stmts, i, blockScope, st) ==
  IF i > Len(stmts) THEN st
  ELSE LET s1 == Evaluate(stmts[i], blockScope, st)
       IN IF s1.ctl # "ok" THEN s1
          ELSE IF blockUnwinds(s1.res) THEN s1
          ELSE blockLoop(stmts, i + 1, blockScope, s1)

evalBlockStatement(block, scope, st) ==
  IF Len(block.stmts) = 1
  THEN LET stmt == block.stmts[1]
           current == LookupVar(st.envs, scope, stmt.assignee.sym)
       IN IF isSelfAdd(stmt) /\ current.t = "num"
          THEN LET s1 == Evaluate(stmt.value.right, scope, st)
               IN IF s1.ctl # "ok" THEN s1
                  ELSE IF s1.res.t = "num"
                  THEN [s1 EXCEPT !.cells[current.a] = @ + s1.cells[s1.res.a],
                                  !.res = current]
                  ELSE Evaluate(stmt, scope, s1)
          ELSE Evaluate(stmt, scope, st)
  ELSE IF Len(block.stmts) = 0 THEN Ok(st, NullVal)
  ELSE LET s1 == NewEnvironment(st, scope)
       IN blockLoop(block.stmts, 1, Newest(s1), Ok(s1, NilVal))

evalIfStatement(stmt, scope, st) ==
  LET s1 == Evaluate(stmt.cond, scope, st)
  IN IF s1.ctl # "ok" THEN s1
     ELSE IF isTruthy(s1.res, s1.cells) THEN evalBlockStatement(stmt.cons, scope, s1)
     ELSE IF stmt.alt.k = "block" THEN evalBlockStatement(stmt.alt, scope, s1)
     ELSE Ok(s1, NilVal)

\* The accumulating loop of the `x = x + i` fast path: 0 + 1 + ... + (count-1).
RECURSIVE sumBelow(_)
sumBelow(count) == IF count <= 0 THEN 0 ELSE (count - 1) + sumBelow(count - 1)

\* The accumulating loop of the `x = x + (i % n)` fast path.
RECURSIVE sumModBelow(_, _)
sumModBelow(count, modVal) ==
  IF count <= 0 THEN 0 ELSE GoMod(count - 1, modVal) + sumModBelow(count - 1, modVal)

forLoop(stmt, forScope, counterVar, i, count, st) ==
  IF i >= count THEN Ok(st, NullVal)
  ELSE LET s1 == NewEnvironment(st, forScope)
           iterScope == Newest(s1)
           s2 == [s1 EXCEPT !.cells[counterVar] = i,
                            !.envs[iterScope].variables =
                               Put(@, stmt.sym, NumberVal(counterVar))]
           s3 == evalBlockStatement(stmt.body, iterScope, s2)
       IN IF s3.ctl # "ok" THEN s3
          ELSE IF s3.res.t = "brk" THEN Ok(s3, NullVal)
          ELSE IF s3.res.t = "cont"
          THEN forLoop(stmt, forScope, counterVar, i + 1, count, s3)
          ELSE IF s3.res.t = "ret" THEN s3
          ELSE forLoop(stmt, forScope, counterVar, i + 1, count, s3)

evalForStatement(stmt, scope, st) ==
  LET s1 == Evaluate(stmt.range, scope, st)
  IN IF s1.ctl # "ok" THEN s1
     ELSE IF s1.res.t # "num" THEN Err(s1, "for loop range must be a number")
     ELSE
     LET count == s1.cells[s1.res.a]
         stmts == stmt.body.stmts
         body1 == stmts[1]
         accumVar == LookupVar(s1.envs, scope, body1.assignee.sym)
         right == body1.value.right
         general == LET s2 == NewEnvironment(s1, scope)
                        forScope == Newest(s2)
                        s3 == fastNumber(s2, 0)
                        counterVar == s3.res.a
                        s4 == DeclareVar(s3, forScope, stmt.sym, s3.res, FALSE)
                    IN forLoop(stmt, forScope, counterVar, 0, count, s4)
     IN IF Len(stmts) = 0 THEN Ok(s1, NullVal)
        ELSE IF Len(stmts) = 1 /\ isSelfAdd(body1) /\ accumVar.t = "num"
        THEN IF right.k = "id" /\ right.sym = stmt.sym
             THEN [s1 EXCEPT !.cells[accumVar.a] = @ + sumBelow(count),
                             !.res = accumVar]
             ELSE IF right.k = "num"
             THEN [s1 EXCEPT !.cells[accumVar.a] = @ + right.n * count,
                             !.res = accumVar]
             ELSE IF /\ right.k = "bin" /\ right.op = "%"
                     /\ right.left.k = "id" /\ right.left.sym = stmt.sym
                     /\ right.right.k = "num"
             THEN IF count > 0 /\ right.right.n = 0
                  THEN Panic(s1, "integer divide by zero")
                  ELSE [s1 EXCEPT !.cells[accumVar.a] =
                                     @ + sumModBelow(count, right.right.n),
                                  !.res = accumVar]
             ELSE general
        ELSE general

evalWhileStatement(stmt, scope, st) ==
  LET s1 == Evaluate(stmt.cond, scope, st)
  IN IF s1.ctl # "ok" THEN s1
     ELSE IF ~isTruthy(s1.res, s1.cells) THEN Ok(s1, NilVal)
     ELSE IF s1.fuel = 0 THEN Hang(s1)
     ELSE LET s2 == evalBlockStatement(stmt.body, scope, [s1 EXCEPT !.fuel = @ - 1])
          IN IF s2.ctl # "ok" THEN s2
             ELSE IF s2.res.t = "brk" THEN Ok(s2, NilVal)
             ELSE IF s2.res.t = "cont" THEN evalWhileStatement(stmt, scope, s2)
             ELSE IF s2.res.t = "ret" THEN s2
             ELSE evalWhileStatement(stmt, scope, s2)

\* A binary expression that skips the right operand of && and || when the
\* left one decides the result.
evalBinaryExprShortCircuit(expr, scope, st) ==
  LET s1 == Evaluate(expr.left, scope, st)
  IN IF s1.ctl # "ok" THEN s1
     ELSE IF /\ s1.res.t = "bool"
             /\ \/ expr.op = "&&" /\ ~s1.res.b
                \/ expr.op = "||" /\ s1.res.b
     THEN s1
     ELSE LET s2 == Evaluate(expr.right, scope, s1)
          IN IF s2.ctl # "ok" THEN s2
             ELSE binaryResult(s2, binaryOp(expr.op, s1.res, s2.res, s2.cells))

evalBinaryExpr(expr, scope, st) ==
  LET s1 == Evaluate(expr.left, scope, st)
  IN IF s1.ctl # "ok" THEN s1
     ELSE LET s2 == Evaluate(expr.right, scope, s1)
          IN IF s2.ctl # "ok" THEN s2
             ELSE binaryResult(s2, binaryOp(expr.op, s1.res, s2.res, s2.cells))

evalUnaryExpr(expr, scope, st) ==
  IF expr.operand.k # "id"
  THEN Err(st, "increment/decrement target must be an identifier")
  ELSE LET current == LookupVar(st.envs, scope, expr.operand.sym)
       IN IF current.t # "num"
          THEN Err(st, "increment/decrement requires numeric variable")
          ELSE IF expr.op \in {"++", "--"}
          THEN LET delta == IF expr.op = "++" THEN 1 ELSE -1
                   s1 == fastNumber(st, st.cells[current.a] + delta)
                   newVal == s1.res
                   s2 == AssignVar(s1, scope, expr.operand.sym, newVal)
               IN IF s2.ctl # "ok" THEN s2
                  ELSE IF expr.prefix THEN Ok(s2, newVal) ELSE Ok(s2, current)
          ELSE Err(st, "unknown unary operator")

evalTryStatement(ts, scope, st) ==
  LET s1 == evalBlockStatement(ts.tryBlock, scope, st)
  IN IF s1.ctl # "err" THEN s1
     ELSE LET s2 == NewEnvironment([s1 EXCEPT !.ctl = "ok", !.msg = ""], scope)
              catchScope == Newest(s2)
              s3 == DeclareVar(s2, catchScope, ts.errorVar, StringVal(s1.msg), FALSE)
          IN evalBlockStatement(ts.catchBlock, catchScope, s3)

\* The statement loop of evalProgram from statement i on: an error ends it,
\* a ReturnVal ends it with the inner value.
programLoop(body, i, scope, st) ==
  IF i > Len(body) THEN st
  ELSE LET s1 == Evaluate(body[i], scope, st)
       IN IF s1.ctl # "ok" THEN s1
          ELSE IF s1.res.t = "ret" THEN Ok(s1, s1.res.inner)
          ELSE programLoop(body, i + 1, scope, s1)

evalProgram(program, scope, st) == programLoop(program.body, 1, scope, Ok(st, NilVal))

evalImport(imp, scope, st) ==
  IF imp.path \notin Modules THEN Err(st, "unknown module")
  ELSE DeclareVar(st, scope, imp.alias, MapVal(imp.path), TRUE)

Evaluate(s, scope, st) ==
  CASE s.k = "num" -> fastNumber(st, s.n)
    [] s.k = "str" -> Ok(st, StringVal(s.s))
    [] s.k = "bool" -> Ok(st, BooleanVal(s.b))
    [] s.k = "bin" -> evalBinaryExpr(s, scope, st)
    [] s.k = "decl" ->
         LET s1 == Evaluate(s.value, scope, st)
         IN IF s1.ctl # "ok" THEN s1
            ELSE DeclareVar(s1, scope, s.sym, s1.res, s.constant)
    [] s.k = "call" -> evalCallExpr(s, scope, st)
    [] s.k = "id" ->
         LET val == LookupVar(st.envs, scope, s.sym)
         IN IF val.t = "nil" THEN Err(st, "undefined variable: " \o s.sym)
            ELSE Ok(st, val)
    [] s.k = "block" -> evalBlockStatement(s, scope, st)
    [] s.k = "if" -> evalIfStatement(s, scope, st)
    [] s.k = "for" -> evalForStatement(s, scope, st)
    [] s.k = "while" -> evalWhileStatement(s, scope, st)
    [] s.k = "asg" -> evalAssignmentExpr(s, scope, st)
    [] s.k = "import" -> evalImport(s, scope, st)
    [] s.k = "fn" ->
         LET uf == UserFunction(Len(st.funs) + 1)
             s1 == [st EXCEPT !.funs = Append(@, [params |-> s.params,
                                                  body |-> s.body, env |-> scope])]
             s2 == DeclareVar(s1, scope, s.name, uf, TRUE)
         IN IF s2.ctl # "ok" THEN s2 ELSE Ok(s2, uf)
    [] s.k = "return" ->
         LET s1 == Evaluate(s.value, scope, st)
         IN IF s1.ctl # "ok" THEN s1 ELSE Ok(s1, ReturnVal(s1.res))
    [] s.k = "unary" -> evalUnaryExpr(s, scope, st)
    [] s.k = "try" -> evalTryStatement(s, scope, st)
    [] s.k = "program" -> evalProgram(s, scope, st)
    [] s.k = "direct" ->
         CASE s.fn = "evalBinaryExpr" -> evalBinaryExpr(s.node, scope, st)
           [] s.fn = "evalForStatement" -> evalForStatement(s.node, scope, st)
           [] s.fn = "evalWhileStatement" -> evalWhileStatement(s.node, scope, st)
           [] s.fn = "evalTryStatement" -> evalTryStatement(s.node, scope, st)
           [] OTHER -> Evaluate(s.node, scope, st)
    [] s.k = "break" -> Ok(st, BreakVal)
    [] s.k = "continue" -> Ok(st, ContinueVal)
    [] OTHER -> Err(st, "unknown statement type")

----------------------------------------------------------------------------
(* Statement pools: the programs the evaluator is run on.  A program is any *)
(* sequence of statements of one pool, up to the step bound.                *)

Println(e) == Call(Id("println"), <<e>>)
Logln(e) == Call(Id("logln"), <<e>>)
Call0(f) == Call(Id(f), <<>>)
Inc(x) == Asg(x, Bin("+", Id(x), Num(1)))

\* Constants (const, function declaration, import alias) and assignments to
\* them from the declaring scope, a nested block and a function body.
FnAssignsC == Funct("f", <<>>, Block(<<Asg("c", Num(5))>>))
AssignsC == <<Asg("c", Num(2)), Inc("c"),
              If(Bool(TRUE), Block(<<Asg("c", Num(2)), Num(0)>>), NoBlock)>>
AssignsG == <<Asg("g", Num(3)), Block(<<Asg("g", Num(3)), Num(0)>>)>>
AssignsM == <<Asg("m", Num(4)), Block(<<Asg("m", Num(4)), Num(0)>>)>>
PoolConst ==
  <<Const("c", Num(1)), FnAssignsC, Call0("f"),
    Funct("g", <<>>, Block(<<>>)), Import("fmaths", "m")>>
  \o AssignsC \o AssignsG \o AssignsM

\* Blocks of one and of two statements that declare a variable: if and else
\* branches, while bodies, try and catch blocks.
Failing == Id("nope")
BlockStmts ==
  <<If(Bool(TRUE), Block(<<Let("x", Num(1))>>), NoBlock),
    If(Bool(FALSE), Block(<<>>), Block(<<Let("x", Num(1))>>)),
    If(Bool(TRUE), Block(<<Let("x", Num(1)), Let("y", Num(2))>>), NoBlock),
    While(Bin("<", Id("n"), Num(1)), Block(<<Inc("n"), Let("x", Num(1))>>)),
    While(Bin("<", Id("n"), Num(1)), Block(<<Let("x", Inc("n"))>>)),
    Try(Block(<<Let("x", Num(1))>>), "e", Block(<<>>)),
    Try(Block(<<Let("x", Num(1)), Let("y", Num(2))>>), "e", Block(<<>>)),
    Try(Block(<<Failing>>), "e", Block(<<Let("x", Num(1))>>))>>
PoolBlock == <<Let("n", Num(0)), Let("x", Num(5)), Println(Id("x"))>> \o BlockStmts

\* A loop whose body calls f, and declarations of f whose body is a bare
\* break, a bare continue, or an ordinary expression.
ForCallsF == For("i", Num(3), Block(<<Call0("f"), Println(Id("i"))>>))
WhileCallsF ==
  While(Bin("<", Id("n"), Num(3)), Block(<<Inc("n"), Call0("f"), Println(Id("n"))>>))
PoolBreak ==
  <<Funct("f", <<>>, Block(<<Break>>)),
    Funct("f", <<>>, Block(<<Continue>>)),
    Funct("f", <<>>, Block(<<Num(0)>>)),
    Funct("f", <<>>, Block(<<Println(Str("f")), Break>>)),
    Let("n", Num(0)), ForCallsF, WhileCallsF>>

\* t(v) prints T when an if takes v for true and F otherwise; w(v) does the
\* same with a while.
TruthArgs == <<<<Num(0)>>, <<Num(1)>>, <<Num(-1)>>, <<Str("")>>, <<Str("a")>>,
               <<Bool(TRUE)>>, <<Bool(FALSE)>>, <<>>, <<Id("println")>>>>
FalseArgs == {<<Num(0)>>, <<Str("")>>, <<Bool(FALSE)>>, <<>>}
DeclT ==
  Funct("t", <<"p">>,
        Block(<<If(Id("p"), Block(<<Println(Str("T"))>>), Block(<<Println(Str("F"))>>))>>))
DeclW ==
  Funct("w", <<"p">>,
        Block(<<While(Id("p"), Block(<<Println(Str("T")), Return(Num(0))>>)),
                Println(Str("F"))>>))
PoolTruthy ==
  <<DeclT, DeclW>>
  \o [i \in 1..Len(TruthArgs) |-> Call(Id("t"), TruthArgs[i])]
  \o [i \in 1..Len(TruthArgs) |-> Call(Id("w"), TruthArgs[i])]

\* A number bound to a, copied into b or passed as p, and assignments to b
\* and to p.
PoolAlias ==
  <<Let("a", Num(1)), Let("b", Id("a")), Inc("b"), Asg("b", Num(5)),
    Asg("b", Bin("+", Id("b"), Id("b"))), Unary("++", Id("b"), TRUE),
    Funct("f", <<"p">>, Block(<<Inc("p")>>)),
    Funct("g", <<"p">>, Block(<<Asg("p", Num(7)), Id("p")>>)),
    Call(Id("f"), <<Id("a")>>), Call(Id("g"), <<Id("a")>>), Println(Id("a"))>>

\* try statements whose try block fails, each with a catch block that
\* prints the caught message.
Catch == Block(<<Println(Id("e"))>>)
TryStmts ==
  <<Try(Block(<<Failing>>), "e", Catch),
    Try(Block(<<Num(0), Failing>>), "e", Catch),
    Try(Block(<<Let("d", Num(1)), Let("d", Num(2))>>), "e", Catch),
    Try(Block(<<Let("println", Num(1))>>), "e", Catch),
    Try(Block(<<Asg("println", Num(2))>>), "e", Catch),
    Try(Block(<<Asg("nope", Num(2))>>), "e", Catch),
    Try(Block(<<Bin("-", Str("s"), Num(1))>>), "e", Catch),
    Try(Block(<<Call(Num(1), <<>>)>>), "e", Catch),
    Try(Block(<<Bin("/", Num(1), Num(0))>>), "e", Catch),
    Try(Block(<<Bin("%", Num(1), Num(0))>>), "e", Catch)>>
PoolTry == <<Println(Str("next"))>> \o TryStmts

\* Declarations initialised by a number, by a call of a built-in that
\* returns no value, by calls of user functions, and reads of the names.
IdentNames == <<"x", "y", "w", "v", "q">>
PoolIdent ==
  <<Let("y", Num(1)), Let("x", Println(Str("hi"))),
    Funct("nop", <<>>, Block(<<If(Bool(FALSE), Block(<<>>), NoBlock)>>)),
    Funct("emp", <<>>, Block(<<>>)),
    Let("w", Call0("nop")), Let("v", Call0("emp"))>>
  \o [i \in 1..Len(IdentNames) |-> Id(IdentNames[i])]

\* mk returns a closure over its own counter c; f and g are closures made
\* by separate calls of mk; the global c belongs to the callers.
MkBody(bump) ==
  Block(<<Let("c", Num(0)),
          Funct("inc", <<>>, Block(<<bump, Return(Id("c"))>>)),
          Return(Id("inc"))>>)
CallsF == Println(Call0("f"))
CallsG == Logln(Call0("g"))
PoolClosure ==
  <<Funct("mk", <<>>, MkBody(Unary("++", Id("c"), TRUE))),
    Funct("mk", <<>>, MkBody(Inc("c"))),
    Let("f", Call0("mk")), Let("g", Call0("mk")), CallsF, CallsG,
    Let("c", Num(10))>>

\* Bodies of r that execute `return 7` at some nesting depth, each followed
\* by statements that print "after"; and returns at program top level.
After == Println(Str("after"))
Ret7 == Return(Num(7))
ReturnBodies ==
  <<Block(<<Ret7>>),
    Block(<<Ret7, After>>),
    Block(<<If(Bool(TRUE), Block(<<Ret7>>), NoBlock), After>>),
    Block(<<If(Bool(FALSE), Block(<<>>), Block(<<Num(0), Ret7, After>>)), After>>),
    Block(<<While(Bool(TRUE), Block(<<Ret7, After>>)), After>>),
    Block(<<For("i", Num(3), Block(<<Println(Id("i")), Ret7>>)), After>>),
    Block(<<Try(Block(<<Ret7>>), "e", Block(<<After>>)), After>>),
    Block(<<Try(Block(<<Failing>>), "e", Block(<<Ret7, After>>)), After>>),
    Block(<<Block(<<Block(<<Ret7, After>>), After>>), After>>),
    Block(<<While(Bool(TRUE),
                  Block(<<For("i", Num(2),
                              Block(<<If(Bool(TRUE),
                                         Block(<<Try(Block(<<Ret7>>), "e", Block(<<>>)),
                                                 After>>),
                                         NoBlock),
                                      After>>)),
                          After>>)),
            After>>)>>
\* The body whose for loop prints its first index before it returns.
PrintsIndexFirst == ReturnBodies[6]
CallsR == Println(Call0("r"))
TopReturns ==
  <<Return(Num(9)),
    If(Bool(TRUE), Block(<<Return(Num(9))>>), NoBlock),
    While(Bool(TRUE), Block(<<Num(0), Return(Num(9)), After>>)),
    For("i", Num(2), Block(<<Try(Block(<<Return(Num(9))>>), "e", Block(<<>>)), After>>))>>
PoolReturn ==
  [i \in 1..Len(ReturnBodies) |-> Funct("r", <<>>, ReturnBodies[i])]
  \o <<CallsR, After>> \o TopReturns

\* Two-level loop nests: an inner for or while that executes break or
\* continue in its second iteration, through an if, an else, a try block, a
\* nested block or a catch block; the outer loop prints "o" after it.
LoopActs == <<Break, Continue>>
InnerKinds == {"for", "while"}
WrapKinds == 1..5
Wrapped(cond, notCond, act, w) ==
  CASE w = 1 -> If(cond, Block(<<act>>), NoBlock)
    [] w = 2 -> If(notCond, Block(<<Num(0)>>), Block(<<Num(0), act>>))
    [] w = 3 -> Try(Block(<<If(cond, Block(<<act>>), NoBlock)>>), "e", Block(<<>>))
    [] w = 4 -> Block(<<If(cond, Block(<<Block(<<act>>)>>), NoBlock), Num(0)>>)
    [] w = 5 -> Try(Block(<<If(cond, Block(<<Failing>>), NoBlock)>>), "e",
                    Block(<<act>>))
InnerLoop(kind, act, w) ==
  IF kind = "for"
  THEN <<For("j", Num(3),
             Block(<<Wrapped(Bin("==", Id("j"), Num(1)), Bin("!=", Id("j"), Num(1)),
                             act, w),
                     Println(Id("j"))>>))>>
  ELSE <<Let("j", Num(0)),
         While(Bin("<", Id("j"), Num(3)),
               Block(<<Unary("++", Id("j"), TRUE),
                       Wrapped(Bin("==", Id("j"), Num(2)), Bin("!=", Id("j"), Num(2)),
                               act, w),
                       Println(Id("j"))>>))>>
NestedLoop(kind, act, w) ==
  For("i", Num(2), Block(InnerLoop(kind, act, w) \o <<Println(Str("o"))>>))
NestedInWhile(kind, act, w) ==
  While(Bin("<", Id("n"), Num(2)),
        Block(<<Inc("n")>> \o InnerLoop(kind, act, w) \o <<Println(Str("o"))>>))
PoolLoops ==
  <<Let("n", Num(0)),
    NestedLoop("for", Break, 1), NestedLoop("for", Break, 2),
    NestedLoop("for", Break, 3), NestedLoop("for", Break, 4),
    NestedLoop("for", Break, 5),
    NestedLoop("for", Continue, 1), NestedLoop("for", Continue, 2),
    NestedLoop("for", Continue, 3), NestedLoop("for", Continue, 4),
    NestedLoop("for", Continue, 5),
    NestedLoop("while", Break, 1), NestedLoop("while", Break, 2),
    NestedLoop("while", Break, 3), NestedLoop("while", Break, 4),
    NestedLoop("while", Break, 5),
    NestedLoop("while", Continue, 1), NestedLoop("while", Continue, 2),
    NestedLoop("while", Continue, 3), NestedLoop("while", Continue, 4),
    NestedLoop("while", Continue, 5),
    NestedInWhile("for", Break, 1), NestedInWhile("for", Continue, 3),
    NestedInWhile("while", Break, 4), NestedInWhile("while", Continue, 5)>>

\* for range(i, N) loops over every shape of body, N in 0..MaxRange, in a
\* program that may bind x and an outer i.
BodyKinds == {"empty", "print", "addI", "addOne", "addMod", "printAdd",
              "printAssign", "assignPrint", "bumpI", "doubleI"}
ForBody(kind) ==
  CASE kind = "empty" -> Block(<<>>)
    [] kind = "print" -> Block(<<Println(Id("i"))>>)
    [] kind = "addI" -> Block(<<Asg("x", Bin("+", Id("x"), Id("i")))>>)
    [] kind = "addOne" -> Block(<<Inc("x")>>)
    [] kind = "addMod" ->
         Block(<<Asg("x", Bin("+", Id("x"), Bin("%", Id("i"), Num(2))))>>)
    [] kind = "printAdd" ->
         Block(<<Println(Id("i")), Asg("x", Bin("+", Id("x"), Id("i")))>>)
    [] kind = "printAssign" -> Block(<<Println(Id("i")), Asg("i", Num(7))>>)
    [] kind = "assignPrint" -> Block(<<Inc("i"), Println(Str("b"))>>)
    [] kind = "bumpI" -> Block(<<Inc("i")>>)
    [] kind = "doubleI" -> Block(<<Asg("i", Bin("+", Id("i"), Id("i")))>>)
ForRange(kind, n) == For("i", Num(n), ForBody(kind))
ForLoops ==
  {ForRange(kind, n) : kind \in BodyKinds, n \in 0..MaxRange}
KindOf(stmt) == CHOOSE kind \in BodyKinds : stmt.body = ForBody(kind)
PoolFor ==
  <<Let("x", Num(0)), Let("i", Num(100)),
    ForRange("empty", 0), ForRange("empty", MaxRange),
    ForRange("print", 0), ForRange("print", 1), ForRange("print", MaxRange),
    ForRange("addI", 0), ForRange("addI", MaxRange),
    ForRange("addOne", 0), ForRange("addOne", MaxRange),
    ForRange("addMod", 1), ForRange("addMod", MaxRange),
    ForRange("printAdd", 0), ForRange("printAdd", MaxRange),
    ForRange("printAssign", 1), ForRange("printAssign", MaxRange),
    ForRange("assignPrint", MaxRange),
    ForRange("bumpI", 0), ForRange("bumpI", MaxRange),
    ForRange("doubleI", MaxRange)>>

\* try statements with what each must do: whether the try block fails, the
\* lines the statement prints, the value of x afterwards (Keep: unchanged),
\* the statement's result (AnyRes: not looked at) and the names it needs.
Keep == [t |-> "keep"]
AnyRes == [t |-> "any"]
NopeMsg == "undefined variable: nope"
FailDecl == Funct("fail", <<>>, Block(<<Asg("x", Num(8)), Failing>>))
TryCase(stmt, fails, prints, x, res, needs) ==
  [stmt |-> stmt, fails |-> fails, prints |-> prints, x |-> x, res |-> res,
   needs |-> needs]
TryCases ==
  <<TryCase(Try(Block(<<Asg("x", Num(5)), Failing>>), "e", Catch),
            TRUE, <<"[println]: " \o NopeMsg>>, [t |-> "num", n |-> 5], AnyRes, {"x"}),
    TryCase(Try(Block(<<Asg("x", Num(6)), Num(1)>>), "e", Catch),
            FALSE, <<>>, [t |-> "num", n |-> 6], [t |-> "num", n |-> 1], {"x"}),
    TryCase(Try(Block(<<Num(2)>>), "e", Catch),
            FALSE, <<>>, Keep, [t |-> "num", n |-> 2], {}),
    TryCase(Try(Block(<<Asg("x", Num(7)), Bin("/", Num(1), Num(0))>>), "e", Catch),
            TRUE, <<"[println]: division by zero">>, [t |-> "num", n |-> 7], AnyRes, {"x"}),
    TryCase(Try(Block(<<Call0("fail")>>), "e", Catch),
            TRUE, <<"[println]: " \o NopeMsg>>, [t |-> "num", n |-> 8], AnyRes, {"x", "fail"}),
    TryCase(Try(Block(<<Failing>>), "e", Block(<<Let("y", Id("e"))>>)),
            TRUE, <<>>, Keep, StringVal(NopeMsg), {}),
    TryCase(Try(Block(<<Failing>>), "e",
                Block(<<Let("y", Id("e")), Println(Id("y"))>>)),
            TRUE, <<"[println]: " \o NopeMsg>>, Keep, AnyRes, {}),
    TryCase(Try(Block(<<Failing>>), "x",
                Block(<<Asg("x", Num(3)), Println(Id("x"))>>)),
            TRUE, <<"[println]: 3">>, Keep, AnyRes, {}),
    TryCase(Try(Block(<<Try(Block(<<Failing>>), "e", Block(<<Id("bad")>>))>>),
                "e", Catch),
            TRUE, <<"[println]: undefined variable: bad">>, Keep, AnyRes, {}),
    TryCase(Try(Block(<<Asg("x", Num(9)), Let("d", Num(1)), Let("d", Num(2))>>),
                "e", Catch),
            TRUE, <<"[println]: Cannot declare variable. It already exists.">>,
            [t |-> "num", n |-> 9], AnyRes, {"x"})>>
PoolCatch ==
  <<Let("x", Num(0)), FailDecl>> \o [i \in 1..Len(TryCases) |-> TryCases[i].stmt]

\* Expressions over functions that print their name when called, each with
\* the names its evaluation must print, in order, and whether it fails.
Noisy(name, v) ==
  Funct(name, <<>>, Block(<<Println(Str(name)), Return(v)>>))
NoisyDecls ==
  <<Noisy("a", Num(1)), Noisy("b", Num(2)), Noisy("t", Bool(TRUE)),
    Noisy("f", Bool(FALSE)),
    Funct("g", <<"p", "q", "r">>, Block(<<Println(Str("g")), Return(Num(0))>>)),
    Noisy("mk", Id("g"))>>
OrderCase(expr, calls, fails) == [expr |-> expr, calls |-> calls, fails |-> fails]
OrderCases ==
  <<OrderCase(Bin("+", Call0("a"), Call0("b")), <<"a", "b">>, FALSE),
    OrderCase(Bin("-", Call0("b"), Call0("a")), <<"b", "a">>, FALSE),
    OrderCase(Bin("<", Call0("a"), Call0("b")), <<"a", "b">>, FALSE),
    OrderCase(Bin("==", Call0("b"), Call0("a")), <<"b", "a">>, FALSE),
    OrderCase(Bin("&&", Call0("f"), Call0("t")), <<"f", "t">>, FALSE),
    OrderCase(Bin("&&", Call0("t"), Call0("f")), <<"t", "f">>, FALSE),
    OrderCase(Bin("||", Call0("t"), Call0("f")), <<"t", "f">>, FALSE),
    OrderCase(Bin("||", Call0("f"), Call0("t")), <<"f", "t">>, FALSE),
    OrderCase(Bin("*", Bin("+", Call0("a"), Call0("b")),
                       Bin("+", Call0("b"), Call0("a"))),
              <<"a", "b", "b", "a">>, FALSE),
    OrderCase(Call(Id("g"), <<Call0("a"), Call0("b"), Call0("a")>>),
              <<"a", "b", "a", "g">>, FALSE),
    OrderCase(Call(Call0("mk"), <<Call0("a"), Call0("b")>>),
              <<"mk", "a", "b", "g">>, FALSE),
    OrderCase(Call(Id("g"), <<Bin("+", Call0("a"), Call0("b")),
                              Bin("&&", Call0("f"), Call0("t")), Call0("b")>>),
              <<"a", "b", "f", "t", "b", "g">>, FALSE),
    OrderCase(Bin("+", Failing, Call0("a")), <<>>, TRUE),
    OrderCase(Bin("+", Call0("a"), Failing), <<"a">>, TRUE),
    OrderCase(Bin("&&", Call0("f"), Failing), <<"f">>, TRUE),
    OrderCase(Bin("||", Failing, Call0("t")), <<>>, TRUE),
    OrderCase(Call(Id("g"), <<Call0("a"), Failing, Call0("b")>>), <<"a">>, TRUE),
    OrderCase(Call(Failing, <<Call0("a")>>), <<>>, TRUE),
    OrderCase(Call(Call0("mk"), <<Failing, Call0("a")>>), <<"mk">>, TRUE),
    OrderCase(Call(Id("println"), <<Call0("a"), Bin("+", Failing, Call0("b"))>>),
              <<"a">>, TRUE)>>
\* The program statement that declares the functions, then evaluates expr.
OrderStmt(expr) == If(Bool(TRUE), Block(NoisyDecls \o <<expr>>), NoBlock)
PoolOrder == [i \in 1..Len(OrderCases) |-> OrderStmt(OrderCases[i].expr)]

\* for range loops whose count is 0 or negative, over every shape of body
\* evalForStatement tells apart.
NonPosRanges == <<Num(0), Bin("-", Num(0), Num(1)), Bin("-", Num(1), Num(3))>>
NonPosBodies ==
  <<ForBody("empty"), ForBody("print"), ForBody("addI"), ForBody("addOne"),
    Block(<<Asg("x", Bin("+", Id("x"), Num(3)))>>), ForBody("addMod"),
    ForBody("printAdd")>>
PoolNonPos ==
  <<Let("x", Num(5)), Let("i", Num(100))>>
  \o [j \in 1..(Len(NonPosRanges) * Len(NonPosBodies)) |->
        For("i", NonPosRanges[((j - 1) % Len(NonPosRanges)) + 1],
            NonPosBodies[((j - 1) \div Len(NonPosRanges)) + 1])]

\* Loops that store the loop variable in the outer variable y during their
\* first iteration, by an assignment or as the argument of keep, and print y
\* in every iteration.
DeclKeep == Funct("keep", <<"p">>, Block(<<Asg("y", Id("p"))>>))
HoldsFirst(store) ==
  For("i", Num(3),
      Block(<<If(Bin("<", Id("i"), Num(1)), Block(<<store>>), NoBlock),
              Println(Id("y"))>>))
HoldByAssign == HoldsFirst(Asg("y", Id("i")))
HoldByCall == HoldsFirst(Call(Id("keep"), <<Id("i")>>))
PoolHeld ==
  <<Let("y", Num(9)), DeclKeep, HoldByAssign, HoldByCall, Println(Id("y")),
    Let("i", Num(100)), Asg("y", Num(4)), Inc("y")>>

\* Anonymous function expressions, which parseFunctionExpression returns as
\* a FunctionDeclaration whose Name is "": as the value of a declaration, as
\* a statement, as the callee of a call, and in the scope of a function.
Anon(ps, e) == Funct("", ps, Block(<<Return(e)>>))
AnonInGlobal ==
  <<Let("f", Anon(<<>>, Num(1))), Let("g", Anon(<<"a">>, Id("a"))),
    Anon(<<>>, Num(2)), Call(Anon(<<"a">>, Id("a")), <<Num(3)>>)>>
PoolAnon ==
  AnonInGlobal
  \o <<Println(Call0("f")), Println(Call(Id("g"), <<Num(4)>>)),
       Funct("h", <<>>, Block(<<Let("k", Anon(<<>>, Num(5))),
                                Let("l", Anon(<<>>, Num(6))),
                                Return(Call0("l"))>>)),
       Println(Call0("h"))>>

Scenarios == {"const", "block", "break", "truthy", "alias", "try", "ident",
              "closure", "return", "loops", "for", "catch", "order", "nonpos",
              "held", "anon"}

Pool(sc) ==
  CASE sc = "const" -> PoolConst
    [] sc = "block" -> PoolBlock
    [] sc = "break" -> PoolBreak
    [] sc = "truthy" -> PoolTruthy
    [] sc = "alias" -> PoolAlias
    [] sc = "try" -> PoolTry
    [] sc = "ident" -> PoolIdent
    [] sc = "closure" -> PoolClosure
    [] sc = "return" -> PoolReturn
    [] sc = "loops" -> PoolLoops
    [] sc = "for" -> PoolFor
    [] sc = "catch" -> PoolCatch
    [] sc = "order" -> PoolOrder
    [] sc = "nonpos" -> PoolNonPos
    [] sc = "held" -> PoolHeld
    [] sc = "anon" -> PoolAnon

StepLimit(sc) ==
  CASE sc = "closure" -> MaxCallSteps
    [] sc \in {"loops", "order"} -> MaxLoopSteps
    [] OTHER -> MaxSteps

----------------------------------------------------------------------------
(* The program driver: evalProgram / HybridEngine.executeProgram           *)

GlobalEnv == 1

InterpInit(scs) ==
  /\ envs = <<[parent |-> 0, variables |-> [n \in Builtins |-> Function(n)],
               constants |-> Builtins]>>
  /\ cells = <<>>
  /\ funs = <<>>
  /\ out = <<>>
  /\ status = "run"
  /\ result = NilVal
  /\ msg = ""
  /\ last = [k |-> "start"]
  /\ pre = [envs |-> envs, cells |-> cells, out |-> out]
  /\ steps = 0
  /\ scen \in scs

\* No call of Tokenize under way.
LexIdle ==
  [input |-> <<>>, src |-> <<>>, tokens |-> <<>>, line |-> 1, col |-> 1,
   state |-> "idle", iter |-> 0, errLine |-> 0, errCol |-> 0]

\* No call of ParseProgram under way.
ParseIdle == [tokens |-> <<>>, pos |-> 0, body |-> <<>>, state |-> "idle", iter |-> 0]

\* No binary operation under way.
BinopIdle == [op |-> "", l |-> NilVal, r |-> NilVal, state |-> "idle"]

\* No VM made yet.
VMIdle == [state |-> "idle"]

\* No HybridEngine made yet.
HybridIdle == [state |-> "idle"]

InitFor(scs) ==
  /\ InterpInit(scs)
  /\ lexer = LexIdle
  /\ parser = ParseIdle
  /\ binop = BinopIdle
  /\ vm = VMIdle
  /\ hybrid = HybridIdle

Init == InitFor(Scenarios)

\* One pass of the statement loop: evaluate the next statement in GlobalEnv,
\* stop on an error, stop with the inner value on a ReturnVal.
ExecStmt(s) ==
  /\ status = "run"
  /\ steps < StepLimit(scen)
  /\ LET st0 == [envs |-> envs, cells |-> cells, funs |-> funs, out |-> out,
                 res |-> NilVal, ctl |-> "ok", msg |-> "", args |-> <<>>,
                 fuel |-> MaxFuel]
         st == Evaluate(s, GlobalEnv, st0)
     IN /\ envs' = st.envs
        /\ cells' = st.cells
        /\ funs' = st.funs
        /\ out' = st.out
        /\ msg' = st.msg
        /\ status' = CASE st.ctl = "err" -> "error"
                        [] st.ctl = "panic" -> "panic"
                        [] st.ctl = "hang" -> "hang"
                        [] st.res.t = "ret" -> "done"
                        [] OTHER -> "run"
        /\ result' = IF st.ctl = "ok" /\ st.res.t = "ret" THEN st.res.inner
                      ELSE st.res
  /\ last' = s
  /\ pre' = [envs |-> envs, cells |-> cells, out |-> out]
  /\ steps' = steps + 1
  /\ UNCHANGED <<scen, machines>>

\* The statement list is exhausted: the program ends with lastResult.
Finish ==
  /\ status = "run"
  /\ status' = "done"
  /\ last' = [k |-> "end"]
  /\ UNCHANGED <<envs, cells, funs, out, result, msg, pre, steps, scen, machines>>

Next ==
  \/ \E i \in 1..Len(Pool(scen)) : ExecStmt(Pool(scen)[i])
  \/ Finish

Spec == Init /\ [][Next]_vars

SpecConst == InitFor({"const"}) /\ [][Next]_vars
SpecBlock == InitFor({"block"}) /\ [][Next]_vars
SpecBreak == InitFor({"break"}) /\ [][Next]_vars
SpecTruthy == InitFor({"truthy"}) /\ [][Next]_vars
SpecAlias == InitFor({"alias"}) /\ [][Next]_vars
SpecTry == InitFor({"try"}) /\ [][Next]_vars
SpecIdent == InitFor({"ident"}) /\ [][Next]_vars
SpecClosure == InitFor({"closure"}) /\ [][Next]_vars
SpecReturn == InitFor({"return"}) /\ [][Next]_vars
SpecLoops == InitFor({"loops"}) /\ [][Next]_vars
SpecFor == InitFor({"for"}) /\ [][Next]_vars
SpecNonPos == InitFor({"nonpos"}) /\ [][Next]_vars
SpecHeld == InitFor({"held"}) /\ [][Next]_vars
SpecAnon == InitFor({"anon"}) /\ [][Next]_vars

----------------------------------------------------------------------------
(* The Environment API called directly: any sequence of NewEnvironment,    *)
(* DeclareVar and AssignVar calls on the scopes created so far.            *)

EnvNames == {"a", "b"}
Declared == StringVal("declared")
Assigned == StringVal("assigned")

\* The variables as the record the operators thread.
Machine ==
  [envs |-> envs, cells |-> cells, funs |-> funs, out |-> out, res |-> NilVal,
   ctl |-> "ok", msg |-> "", args |-> <<>>, fuel |-> MaxFuel]

\* The variables after an API call that left the machine in st.
Returned(st, call) ==
  /\ envs' = st.envs
  /\ status' = IF st.ctl = "panic" THEN "panic" ELSE "run"
  /\ msg' = st.msg
  /\ result' = st.res
  /\ last' = call
  /\ pre' = [envs |-> envs, cells |-> cells, out |-> out]
  /\ steps' = steps + 1
  /\ UNCHANGED <<cells, funs, out, scen, machines>>

CallNewEnvironment(parent) ==
  /\ status = "run" /\ steps < MaxEnvSteps
  /\ Returned(NewEnvironment(Machine, parent), [k |-> "new", env |-> parent])

CallDeclareVar(env, name, isConstant) ==
  /\ status = "run" /\ steps < MaxEnvSteps
  /\ Returned(DeclareVar(Machine, env, name, Declared, isConstant),
              [k |-> "declare", env |-> env, sym |-> name])

CallAssignVar(env, name) ==
  /\ status = "run" /\ steps < MaxEnvSteps
  /\ Returned(AssignVar(Machine, env, name, Assigned),
              [k |-> "assign", env |-> env, sym |-> name])

NextEnv ==
  \/ \E parent \in 1..Len(envs) : CallNewEnvironment(parent)
  \/ \E env \in 1..Len(envs), name \in EnvNames, c \in BOOLEAN :
       CallDeclareVar(env, name, c)
  \/ \E env \in 1..Len(envs), name \in EnvNames : CallAssignVar(env, name)

SpecEnv == InitFor({"env"}) /\ [][NextEnv]_vars
SpecCatch == InitFor({"catch"}) /\ [][Next]_vars
SpecOrder == InitFor({"order"}) /\ [][Next]_vars

----------------------------------------------------------------------------
(* Tokenize (the lexer): one action per pass of its main loop              *)

\* The characters source texts are made of: one or two of each class the
\* lexer distinguishes.
Letters == {"a", "f", "o", "r"}
Digits == {"1"}
LexChars == {"\"", "(", "/", "=", "!", "&", "|", "%", " ", "\n"} \cup Letters \cup Digits

isAlpha(ch) == ch \in Letters
isInt(ch) == ch \in Digits
isSkippable(ch) == ch \in {" ", "\n", "\t", "\r"}

SingleChar ==
  [ch \in {"(", ")", "{", "}", "[", "]", ":", ",", "."} |->
     CASE ch = "(" -> "OpenParen" [] ch = ")" -> "CloseParen"
       [] ch = "{" -> "OpenBrace" [] ch = "}" -> "CloseBrace"
       [] ch = "[" -> "OpenBracket" [] ch = "]" -> "CloseBracket"
       [] ch = ":" -> "Colon" [] ch = "," -> "Comma" [] ch = "." -> "Dot"]

keywords ==
  [w \in {"let", "var", "const", "if", "else", "for", "while", "for range",
          "true", "false", "import", "as"} |->
     CASE w = "let" -> "Let" [] w = "var" -> "Var" [] w = "const" -> "Const"
       [] w = "if" -> "If" [] w = "else" -> "Else" [] w = "for" -> "For"
       [] w = "while" -> "While" [] w = "for range" -> "ForRange"
       [] w = "true" -> "True" [] w = "false" -> "False"
       [] w = "import" -> "Import" [] w = "as" -> "As"]

token(value, type, line, column) ==
  [value |-> value, type |-> type, line |-> line, column |-> column]

\* s[n:] of a Go slice.
Drop(s, n) == SubSeq(s, n + 1, Len(s))

\* How many leading elements of s are in S, resp. differ from ch.
LeadIn(s, S) ==
  CHOOSE n \in 0..Len(s) :
    (\A i \in 1..n : s[i] \in S) /\ (n = Len(s) \/ s[n + 1] \notin S)
LeadNot(s, ch) ==
  CHOOSE n \in 0..Len(s) :
    (\A i \in 1..n : s[i] # ch) /\ (n = Len(s) \/ s[n + 1] = ch)

\* The string built by appending the characters of s.
RECURSIVE Join(_)
Join(s) == IF s = <<>> THEN "" ELSE s[1] \o Join(Tail(s))

\* The lexer after emitting a token and consuming n characters of one line.
Emit(lx, tok, n) ==
  [lx EXCEPT !.tokens = Append(@, tok), !.src = Drop(@, n), !.col = @ + n]

\* A two-character operator when the next character is `second`, else the
\* one-character token given (NoToken: the branch has no else).
NoToken == [type |-> "none"]
TwoOrOne(lx, second, two, twoType, one) ==
  IF Len(lx.src) > 1 /\ lx.src[2] = second
  THEN Emit(lx, token(two, twoType, lx.line, lx.col), 2)
  ELSE IF one = NoToken THEN lx
  ELSE Emit(lx, one, 1)

\* The string-literal branch.
lexString(lx) ==
  LET rest == Drop(lx.src, 1)
      n == LeadNot(rest, "\"")
      str == Join(SubSeq(rest, 1, n))
      col == lx.col + n + 2
  IN IF n = Len(rest)
     THEN [lx EXCEPT !.state = "panic", !.src = <<>>, !.col = lx.col + n + 1]
     ELSE [lx EXCEPT !.src = Drop(rest, n + 1), !.col = col,
                     !.tokens = Append(@, token(str, "String", lx.line, col - n - 2))]

\* The identifier branch, with the look-ahead that joins `for range`.
lexIdent(lx) ==
  LET n == LeadIn(lx.src, Letters \cup Digits)
      ident == Join(SubSeq(lx.src, 1, n))
      src == Drop(lx.src, n)
      tempSrc == Drop(src, 1)
      m == LeadIn(tempSrc, Letters \cup Digits)
      nextIdent == Join(SubSeq(tempSrc, 1, m))
  IN IF ident = "for" /\ Len(src) > 0 /\ src[1] = " " /\ nextIdent = "range"
     THEN [lx EXCEPT !.tokens = Append(@, token("for range", "ForRange", lx.line, lx.col)),
                     !.src = Drop(tempSrc, m), !.col = @ + n + 1 + m]
     ELSE Emit(lx, token(ident, IF ident \in DOMAIN keywords THEN keywords[ident]
                                ELSE "Identifier", lx.line, lx.col), n)

\* One pass of the loop `for len(src) > 0`.
tokenizeStep(lx) ==
  LET ch == lx.src[1]
      one(type) == token(ch, type, lx.line, lx.col)
  IN CASE ch = "\"" -> lexString(lx)
       [] ch \in DOMAIN SingleChar -> Emit(lx, one(SingleChar[ch]), 1)
       [] ch \in {"+", "-", "*", "/"} ->
            IF ch = "/" /\ Len(lx.src) > 1 /\ lx.src[2] = "/"
            THEN [lx EXCEPT !.src = Drop(@, LeadNot(lx.src, "\n")),
                            !.col = @ + LeadNot(lx.src, "\n")]
            ELSE Emit(lx, one("BinaryOperator"), 1)
       [] ch = "=" -> TwoOrOne(lx, "=", "==", "ComparisonOperator", one("Equals"))
       [] ch = "!" -> TwoOrOne(lx, "=", "!=", "ComparisonOperator", NoToken)
       [] ch = "<" -> TwoOrOne(lx, "=", "<=", "ComparisonOperator", one("ComparisonOperator"))
       [] ch = ">" -> TwoOrOne(lx, "=", ">=", "ComparisonOperator", one("ComparisonOperator"))
       [] ch = "&" -> TwoOrOne(lx, "&", "&&", "LogicalOperator", NoToken)
       [] ch = "|" -> TwoOrOne(lx, "|", "||", "LogicalOperator", NoToken)
       [] isInt(ch) ->
            Emit(lx, token(Join(SubSeq(lx.src, 1, LeadIn(lx.src, Digits))), "Number",
                           lx.line, lx.col),
                 LeadIn(lx.src, Digits))
       [] isAlpha(ch) -> lexIdent(lx)
       [] isSkippable(ch) ->
            [lx EXCEPT !.src = Drop(@, 1),
                       !.line = IF ch = "\n" THEN @ + 1 ELSE @,
                       !.col = IF ch = "\n" THEN 1 ELSE @ + 1]
       [] OTHER -> [lx EXCEPT !.state = "exit", !.errLine = lx.line, !.errCol = lx.col]

\* Source texts of up to n characters.
RECURSIVE Texts(_)
Texts(n) ==
  IF n = 0 THEN {<<>>}
  ELSE Texts(n - 1)
       \cup {Append(s, ch) : s \in {x \in Texts(n - 1) : Len(x) = n - 1}, ch \in LexChars}

\* The locals of Tokenize(sourceCode) on entry.
LexStart(sourceCode) ==
  [LexIdle EXCEPT !.input = sourceCode, !.src = sourceCode, !.state = "run"]

\* Passes of the loop that are followed; a call that lasts longer is left alone.
LexIterCap == MaxSrcLen + 2

LexStep ==
  /\ lexer.state = "run"
  /\ Len(lexer.src) > 0
  /\ lexer.iter < LexIterCap
  /\ lexer' = [tokenizeStep(lexer) EXCEPT !.iter = @ + 1]
  /\ UNCHANGED <<interp, parser, binop, vm, hybrid>>

LexReturn ==
  /\ lexer.state = "run"
  /\ Len(lexer.src) = 0
  /\ lexer' = [lexer EXCEPT !.state = "done"]
  /\ UNCHANGED <<interp, parser, binop, vm, hybrid>>

NextLex == LexStep \/ LexReturn

SpecLex ==
  /\ InterpInit({"lex"})
  /\ lexer \in {LexStart(s) : s \in Texts(MaxSrcLen)}
  /\ parser = ParseIdle
  /\ binop = BinopIdle
  /\ vm = VMIdle
  /\ hybrid = HybridIdle
  /\ [][NextLex]_vars

----------------------------------------------------------------------------
(* ParseProgram (the parser).  A token is its type; a BinaryOperator token  *)
(* is "Plus" (value + or -) or "Star" (value * or /).  Parsing functions    *)
(* take the token list and the parser [pos, ctl, node, fuel] and return it. *)

\* The absent statement (nil) and the nodes, without their literal values.
NilStmt == [k |-> "nil"]
Node(kind) == [k |-> kind]
Tree(kind, parts) == [k |-> kind, parts |-> parts]
StmtList(kind, stmts) == [k |-> kind, stmts |-> stmts]

peek(toks, ps) == IF ps.pos >= Len(toks) THEN "EOF" ELSE toks[ps.pos + 1]
consume(ps) == [ps EXCEPT !.pos = @ + 1]
ParseError(ps) == [ps EXCEPT !.ctl = "err", !.node = NilStmt]
Parsed(ps, node) == [ps EXCEPT !.node = node]
expect(toks, ps, expected) ==
  IF peek(toks, ps) # expected THEN ParseError(consume(ps)) ELSE consume(ps)

\* A run of expect calls, ended by the first that fails.
RECURSIVE expectAll(_, _, _)
expectAll(toks, ps, types) ==
  IF types = <<>> \/ ps.ctl # "ok" THEN ps
  ELSE expectAll(toks, expect(toks, ps, types[1]), Tail(types))

\* The operator tokens of the four binary levels, loosest first.
LevelOps(level) ==
  CASE level = 1 -> {"LogicalOperator"}
    [] level = 2 -> {"ComparisonOperator"}
    [] level = 3 -> {"Plus"}
    [] level = 4 -> {"Star", "Modulo"}

RECURSIVE parserCall(_, _, _, _)

\* `for { item; if peek == close { break }; expect(Comma) }`
exprList(toks, ps, close, items) ==
  LET e == parserCall("parseExpr", toks, ps, <<>>)
  IN IF e.ctl # "ok" THEN e
     ELSE IF peek(toks, e) = close THEN Parsed(e, Append(items, e.node))
     ELSE LET c == expect(toks, e, "Comma")
          IN IF c.ctl # "ok" THEN c
             ELSE parserCall("exprList", toks, c, <<close, Append(items, e.node)>>)

mapEntries(toks, ps, items) ==
  LET key == parserCall("parseExpr", toks, ps, <<>>)
      colon == IF key.ctl # "ok" THEN key ELSE expect(toks, key, "Colon")
      value == IF colon.ctl # "ok" THEN colon ELSE parserCall("parseExpr", toks, colon, <<>>)
  IN IF value.ctl # "ok" THEN value
     ELSE IF peek(toks, value) = "CloseBrace"
     THEN Parsed(value, items \o <<key.node, value.node>>)
     ELSE LET c == expect(toks, value, "Comma")
          IN IF c.ctl # "ok" THEN c
             ELSE parserCall("mapEntries", toks, c, <<items \o <<key.node, value.node>>>>)

paramList(toks, ps) ==
  LET name == expect(toks, ps, "Identifier")
  IN IF name.ctl # "ok" THEN name
     ELSE IF peek(toks, name) = "CloseParen" THEN name
     ELSE LET c == expect(toks, name, "Comma")
          IN IF c.ctl # "ok" THEN c ELSE parserCall("paramList", toks, c, <<>>)

\* Parameters and body of a function, after `funct [name] (`.
parseFunctionRest(toks, ps, kind) ==
  LET params == IF peek(toks, ps) # "CloseParen" THEN parserCall("paramList", toks, ps, <<>>) ELSE ps
      close == IF params.ctl # "ok" THEN params ELSE expect(toks, params, "CloseParen")
      body == IF close.ctl # "ok" THEN close ELSE parserCall("parseBlockStatement", toks, close, <<>>)
  IN IF body.ctl # "ok" THEN body ELSE Parsed(body, Tree(kind, <<body.node>>))

parsePrimary(toks, ps) ==
  LET tok == peek(toks, ps)
      p1 == consume(ps)
  IN CASE tok = "Number" -> Parsed(p1, Node("num"))
       [] tok = "Identifier" -> Parsed(p1, Node("id"))
       [] tok = "String" -> Parsed(p1, Node("str"))
       [] tok \in {"True", "False"} -> Parsed(p1, Node("bool"))
       [] tok = "OpenBracket" ->
            LET items == IF peek(toks, p1) # "CloseBracket"
                         THEN parserCall("exprList", toks, p1, <<"CloseBracket", <<>>>>)
                         ELSE Parsed(p1, <<>>)
                close == IF items.ctl # "ok" THEN items
                         ELSE expect(toks, items, "CloseBracket")
            IN IF close.ctl # "ok" THEN close
               ELSE Parsed(close, Tree("array", items.node))
       [] tok = "OpenBrace" ->
            LET items == IF peek(toks, p1) # "CloseBrace"
                         THEN parserCall("mapEntries", toks, p1, <<<<>>>>)
                         ELSE Parsed(p1, <<>>)
                close == IF items.ctl # "ok" THEN items
                         ELSE expect(toks, items, "CloseBrace")
            IN IF close.ctl # "ok" THEN close
               ELSE Parsed(close, Tree("map", items.node))
       [] tok = "OpenParen" ->
            LET e == parserCall("parseExpr", toks, p1, <<>>)
                close == IF e.ctl # "ok" THEN e ELSE expect(toks, e, "CloseParen")
            IN IF close.ctl # "ok" THEN close ELSE Parsed(close, e.node)
       [] tok = "Funct" ->
            LET open == expect(toks, p1, "OpenParen")
            IN IF open.ctl # "ok" THEN open
               ELSE parserCall("parseFunctionRest", toks, open, <<"funct">>)
       [] OTHER -> ParseError(p1)

memberLoop(toks, ps, obj) ==
  IF peek(toks, ps) # "Dot" THEN Parsed(ps, obj)
  ELSE LET prop == expect(toks, consume(ps), "Identifier")
       IN IF prop.ctl # "ok" THEN prop
          ELSE parserCall("memberLoop", toks, prop, <<Tree("member", <<obj>>)>>)

parseMemberExpr(toks, ps) ==
  LET obj == parserCall("parsePrimary", toks, ps, <<>>)
  IN IF obj.ctl # "ok" THEN obj ELSE parserCall("memberLoop", toks, obj, <<obj.node>>)

callLoop(toks, ps, callee) ==
  IF peek(toks, ps) # "OpenParen" THEN Parsed(ps, callee)
  ELSE LET p1 == consume(ps)
           args == IF peek(toks, p1) # "CloseParen"
                   THEN parserCall("exprList", toks, p1, <<"CloseParen", <<>>>>)
                   ELSE Parsed(p1, <<>>)
           close == IF args.ctl # "ok" THEN args ELSE expect(toks, args, "CloseParen")
       IN IF close.ctl # "ok" THEN close
          ELSE parserCall("callLoop", toks, close, <<Tree("call", <<callee>> \o args.node)>>)

parseCallExpr(toks, ps) ==
  LET callee == parserCall("parseMemberExpr", toks, ps, <<>>)
  IN IF callee.ctl # "ok" THEN callee ELSE parserCall("callLoop", toks, callee, <<callee.node>>)

parseUnaryExpr(toks, ps) ==
  IF peek(toks, ps) \in {"Increment", "Decrement"}
  THEN LET operand == parserCall("parseCallExpr", toks, consume(ps), <<>>)
       IN IF operand.ctl # "ok" THEN operand
          ELSE Parsed(operand, Tree("unary", <<operand.node>>))
  ELSE LET expr == parserCall("parseCallExpr", toks, ps, <<>>)
       IN IF expr.ctl # "ok" THEN expr
          ELSE IF peek(toks, expr) \in {"Increment", "Decrement"}
          THEN Parsed(consume(expr), Tree("unary", <<expr.node>>))
          ELSE expr

\* parseLogicalExpr, parseComparisonExpr, parseAdditiveExpr and
\* parseMultiplicativeExpr: levels 1 to 4.
levelLoop(toks, ps, level, left) ==
  IF peek(toks, ps) \notin LevelOps(level) THEN Parsed(ps, left)
  ELSE LET right == IF level = 4 THEN parserCall("parseUnaryExpr", toks, consume(ps), <<>>)
                    ELSE parserCall("parseLevel", toks, consume(ps), <<level + 1>>)
       IN IF right.ctl # "ok" THEN right
          ELSE parserCall("levelLoop", toks, right, <<level, Tree("bin", <<left, right.node>>)>>)

parseLevel(toks, ps, level) ==
  LET left == IF level = 4 THEN parserCall("parseUnaryExpr", toks, ps, <<>>)
              ELSE parserCall("parseLevel", toks, ps, <<level + 1>>)
  IN IF left.ctl # "ok" THEN left ELSE parserCall("levelLoop", toks, left, <<level, left.node>>)

\* parseExpr is parseAssignmentExpr.
parseExpr(toks, ps) ==
  LET left == parserCall("parseLevel", toks, ps, <<1>>)
  IN IF left.ctl # "ok" THEN left
     ELSE IF peek(toks, left) # "Equals" THEN left
     ELSE IF left.node.k # "id" THEN ParseError(left)
     ELSE LET value == parserCall("parseExpr", toks, consume(left), <<>>)
          IN IF value.ctl # "ok" THEN value
             ELSE Parsed(value, Tree("asg", <<left.node, value.node>>))

\* The statement loop of parseBlockStatement; a pass that starts with no
\* fuel left is one the loop never gets out of.
blockStmts(toks, ps, statements) ==
  IF ~(peek(toks, ps) # "CloseBrace" /\ ps.pos < Len(toks))
  THEN Parsed(ps, statements)
  ELSE IF ps.fuel = 0 THEN [ps EXCEPT !.ctl = "hang", !.node = statements]
  ELSE LET stmt == parserCall("parseStmt", toks, [ps EXCEPT !.fuel = @ - 1], <<>>)
       IN IF stmt.ctl # "ok" THEN stmt
          ELSE parserCall("blockStmts", toks, stmt, <<Append(statements, stmt.node)>>)

parseBlockStatement(toks, ps) ==
  LET open == expect(toks, ps, "OpenBrace")
      stmts == IF open.ctl # "ok" THEN open ELSE parserCall("blockStmts", toks, open, <<<<>>>>)
      close == IF stmts.ctl # "ok" THEN stmts ELSE expect(toks, stmts, "CloseBrace")
  IN IF close.ctl # "ok" THEN close
     ELSE Parsed(close, StmtList("block", stmts.node))

\* A statement made of a keyword, `(`, an expression, `)` and a block.
headAndBody(toks, ps, kind, head) ==
  LET open == expectAll(toks, consume(ps), head)
      cond == IF open.ctl # "ok" THEN open ELSE parserCall("parseExpr", toks, open, <<>>)
      close == IF cond.ctl # "ok" THEN cond ELSE expect(toks, cond, "CloseParen")
      body == IF close.ctl # "ok" THEN close ELSE parserCall("parseBlockStatement", toks, close, <<>>)
  IN IF body.ctl # "ok" THEN body
     ELSE Parsed(body, Tree(kind, <<cond.node, body.node>>))

parseIfStatement(toks, ps) ==
  LET then == headAndBody(toks, ps, "if", <<"OpenParen">>)
  IN IF then.ctl # "ok" THEN then
     ELSE IF peek(toks, then) # "Else" THEN then
     ELSE LET alternative == parserCall("parseBlockStatement", toks, consume(then), <<>>)
          IN IF alternative.ctl # "ok" THEN alternative
             ELSE Parsed(alternative, Tree("if", then.node.parts \o <<alternative.node>>))

parseTryStatement(toks, ps) ==
  LET tryBlock == parserCall("parseBlockStatement", toks, consume(ps), <<>>)
      head == expectAll(toks, tryBlock, <<"Catch", "OpenParen", "Identifier", "CloseParen">>)
      catchBlock == IF head.ctl # "ok" THEN head ELSE parserCall("parseBlockStatement", toks, head, <<>>)
  IN IF catchBlock.ctl # "ok" THEN catchBlock
     ELSE Parsed(catchBlock, Tree("try", <<tryBlock.node, catchBlock.node>>))

parseStmt(toks, ps) ==
  LET tok == peek(toks, ps)
  IN CASE tok = "Import" ->
            LET alias == expectAll(toks, consume(ps), <<"String", "As", "Identifier">>)
            IN IF alias.ctl # "ok" THEN alias ELSE Parsed(alias, Node("import"))
       [] tok = "Funct" ->
            LET open == expectAll(toks, consume(ps), <<"Identifier", "OpenParen">>)
            IN IF open.ctl # "ok" THEN open
               ELSE parserCall("parseFunctionRest", toks, open, <<"funct">>)
       [] tok = "Return" ->
            LET value == parserCall("parseExpr", toks, consume(ps), <<>>)
            IN IF value.ctl # "ok" THEN value
               ELSE Parsed(value, Tree("return", <<value.node>>))
       [] tok = "Try" -> parseTryStatement(toks, ps)
       [] tok = "Break" -> Parsed(consume(ps), Node("break"))
       [] tok = "Continue" -> Parsed(consume(ps), Node("continue"))
       [] tok \in {"Let", "Var", "Const"} ->
            LET eq == expectAll(toks, consume(ps), <<"Identifier", "Equals">>)
                value == IF eq.ctl # "ok" THEN eq ELSE parserCall("parseExpr", toks, eq, <<>>)
            IN IF value.ctl # "ok" THEN value
               ELSE Parsed(value, Tree("decl", <<value.node>>))
       [] tok = "If" -> parseIfStatement(toks, ps)
       [] tok = "ForRange" ->
            headAndBody(toks, ps, "for", <<"OpenParen", "Identifier", "Comma">>)
       [] tok = "While" -> headAndBody(toks, ps, "while", <<"OpenParen">>)
       [] tok = "Else" -> Parsed(ps, NilStmt)
       [] tok = "OpenBrace" -> parserCall("parseBlockStatement", toks, ps, <<>>)
       [] OTHER -> parserCall("parseExpr", toks, ps, <<>>)

\* p.fn(arg...): the parsing functions call each other through it.
parserCall(fn, toks, ps, arg) ==
  CASE fn = "parseStmt" -> parseStmt(toks, ps)
    [] fn = "parseBlockStatement" -> parseBlockStatement(toks, ps)
    [] fn = "blockStmts" -> blockStmts(toks, ps, arg[1])
    [] fn = "parseExpr" -> parseExpr(toks, ps)
    [] fn = "parseLevel" -> parseLevel(toks, ps, arg[1])
    [] fn = "levelLoop" -> levelLoop(toks, ps, arg[1], arg[2])
    [] fn = "parseUnaryExpr" -> parseUnaryExpr(toks, ps)
    [] fn = "parseCallExpr" -> parseCallExpr(toks, ps)
    [] fn = "callLoop" -> callLoop(toks, ps, arg[1])
    [] fn = "parseMemberExpr" -> parseMemberExpr(toks, ps)
    [] fn = "memberLoop" -> memberLoop(toks, ps, arg[1])
    [] fn = "parsePrimary" -> parsePrimary(toks, ps)
    [] fn = "exprList" -> exprList(toks, ps, arg[1], arg[2])
    [] fn = "mapEntries" -> mapEntries(toks, ps, arg[1])
    [] fn = "paramList" -> paramList(toks, ps)
    [] fn = "parseFunctionRest" -> parseFunctionRest(toks, ps, arg[1])

\* The token types sequences are made of, and the sequences given to
\* ParseProgram: every short one, and some whole statements; parentheses
\* come with the whole statements.
TokenTypes ==
  {"Else", "If", "OpenBrace", "CloseBrace", "Identifier", "Break", "Plus", "Equals"}
RECURSIVE TokenSeqs(_)
TokenSeqs(n) ==
  IF n = 0 THEN {<<>>}
  ELSE TokenSeqs(n - 1)
       \cup {Append(s, ty) : s \in {x \in TokenSeqs(n - 1) : Len(x) = n - 1},
                             ty \in TokenTypes}
IfElseTokens ==
  <<"If", "OpenParen", "Identifier", "CloseParen", "OpenBrace", "Break",
    "CloseBrace", "Else", "OpenBrace", "Identifier", "CloseBrace">>
WholeStatements ==
  {IfElseTokens,
   <<"OpenParen", "Identifier", "Plus", "Identifier", "CloseParen", "Equals">>,
   <<"If", "OpenParen", "Identifier", "CloseParen", "OpenBrace", "Else">>,
   IfElseTokens \o <<"Else">>,
   <<"While", "OpenParen", "True", "CloseParen", "OpenBrace", "Else", "CloseBrace">>,
   <<"Try", "OpenBrace", "Identifier", "CloseBrace", "Catch", "OpenParen",
     "Identifier", "CloseParen", "OpenBrace", "CloseBrace">>,
   <<"Let", "Identifier", "Equals", "Identifier", "OpenParen", "Number", "Comma",
     "Number", "CloseParen", "Return", "Identifier">>,
   <<"ForRange", "OpenParen", "Identifier", "Comma", "Number", "CloseParen",
     "OpenBrace", "Continue", "CloseBrace">>,
   <<"Funct", "Identifier", "OpenParen", "Identifier", "CloseParen", "OpenBrace",
     "Return", "Identifier", "Star", "Number", "CloseBrace">>,
   <<"Import", "String", "As", "Identifier", "Identifier", "Increment">>}

\* New(tokens) followed by the entry of ParseProgram.
ParseStart(tokens) == [ParseIdle EXCEPT !.tokens = tokens, !.state = "run"]

\* Passes of the loop of ParseProgram that are followed.
ParseIterCap(tokens) == Len(tokens) + 2

\* The parser after a pass whose parseStmt left stmt.
afterStmt(pr, stmt) ==
  [pr EXCEPT !.pos = stmt.pos,
             !.iter = @ + 1,
             !.state = IF stmt.ctl = "ok" THEN "run" ELSE stmt.ctl,
             !.body = IF stmt.ctl = "ok" /\ stmt.node # NilStmt
                      THEN Append(@, stmt.node) ELSE @]

\* One pass of the loop of ParseProgram.
ParseStep ==
  /\ parser.state = "run"
  /\ parser.pos < Len(parser.tokens)
  /\ parser.iter < ParseIterCap(parser.tokens)
  /\ parser' = afterStmt(parser,
                         parserCall("parseStmt", parser.tokens,
                                    [pos |-> parser.pos, ctl |-> "ok", node |-> NilStmt,
                                     fuel |-> Len(parser.tokens) + 1], <<>>))
  /\ UNCHANGED <<interp, lexer, binop, vm, hybrid>>

ParseReturn ==
  /\ parser.state = "run"
  /\ parser.pos >= Len(parser.tokens)
  /\ parser' = [parser EXCEPT !.state = "done"]
  /\ UNCHANGED <<interp, lexer, binop, vm, hybrid>>

NextParse == ParseStep \/ ParseReturn

SpecParse ==
  /\ InterpInit({"parse"})
  /\ lexer = LexIdle
  /\ parser \in {ParseStart(s) : s \in TokenSeqs(MaxTokens) \cup WholeStatements}
  /\ binop = BinopIdle
  /\ vm = VMIdle
  /\ hybrid = HybridIdle
  /\ [][NextParse]_vars

----------------------------------------------------------------------------
(* The binary opcodes of the VM (the OP_ADD .. OP_DIV and OP_CMP_EQ ..      *)
(* OP_CMP_GE cases of VM.Run), on the two popped operands, and the opcode   *)
(* the compiler emits for an operator.  Outcomes are shaped as binaryOp's.  *)

OP_CONST == 0
OP_LOAD_GLOBAL == 1
OP_STORE_GLOBAL == 2
OP_LOAD_LOCAL == 3
OP_STORE_LOCAL == 4
OP_ADD == 5
OP_SUB == 6
OP_MUL == 7
OP_DIV == 8
OP_CMP_EQ == 9
OP_CMP_NE == 10
OP_CMP_LT == 11
OP_CMP_LE == 12
OP_CMP_GT == 13
OP_CMP_GE == 14
OP_JUMP == 15
OP_JUMP_IF_FALSE == 16
OP_CALL == 17
OP_RET == 18
OP_POP == 19
OP_GET_PROP == 20
OP_IMPORT == 21
OP_INCREMENT_LOCAL == 22
OP_LOAD_CONST_0 == 25
OP_LOAD_CONST_1 == 26
OP_LOAD_TRUE == 27
OP_LOAD_FALSE == 28
OP_LOAD_NULL == 29
OP_FOR_LOOP_NEXT == 39

\* The math opcodes.  vm.go and the compiler use them; bytecode.go does not
\* declare them, so they are numbered here after OP_OR, the last opcode it
\* declares, in the order of the cases of Run.
OP_POW == 43
OP_SQRT == OP_POW + 1
OP_SIN == OP_SQRT + 1
OP_COS == OP_SIN + 1
OP_LOG == OP_COS + 1
OP_EXP == OP_LOG + 1
OP_ABS == OP_EXP + 1
OP_FLOOR == OP_ABS + 1
OP_CEIL == OP_FLOOR + 1

\* No opcode: the operators compileExpr's switch has no case for.
NoOpcode == -1

\* The switch on n.Operator of compileExpr.
binaryOpcode(operator) ==
  CASE operator = "+" -> OP_ADD
    [] operator = "-" -> OP_SUB
    [] operator = "*" -> OP_MUL
    [] operator = "/" -> OP_DIV
    [] operator = "==" -> OP_CMP_EQ
    [] operator = "!=" -> OP_CMP_NE
    [] operator = "<" -> OP_CMP_LT
    [] operator = "<=" -> OP_CMP_LE
    [] operator = ">" -> OP_CMP_GT
    [] operator = ">=" -> OP_CMP_GE
    [] OTHER -> NoOpcode

CompiledOperators == {"+", "-", "*", "/", "==", "!=", "<", "<=", ">", ">="}

\* case OP_ADD, OP_SUB, OP_MUL, OP_DIV
vmArith(op, l, r, cs) ==
  IF l.t = "num" /\ r.t = "num"
  THEN CASE op = OP_ADD -> [c |-> "num", n |-> cs[l.a] + cs[r.a]]
         [] op = OP_SUB -> [c |-> "num", n |-> cs[l.a] - cs[r.a]]
         [] op = OP_MUL -> [c |-> "num", n |-> cs[l.a] * cs[r.a]]
         [] op = OP_DIV -> IF cs[r.a] = 0
                           THEN [c |-> "err", m |-> "division by zero"]
                           ELSE [c |-> "num", n |-> cs[l.a] \div cs[r.a]]
  ELSE IF op = OP_ADD /\ l.t = "str"
  THEN IF r.t = "nil" THEN [c |-> "panic", m |-> "nil pointer dereference"]
       ELSE [c |-> "str", s |-> l.s \o ValString(r, cs)]
  ELSE IF op = OP_ADD /\ r.t = "str"
  THEN IF l.t = "nil" THEN [c |-> "panic", m |-> "nil pointer dereference"]
       ELSE [c |-> "str", s |-> ValString(l, cs) \o r.s]
  ELSE [c |-> "err", m |-> "unsupported operands for op"]

\* case OP_CMP_EQ, OP_CMP_NE, OP_CMP_LT, OP_CMP_LE, OP_CMP_GT, OP_CMP_GE
vmCompare(op, l, r, cs) ==
  IF l.t = "num" /\ r.t = "num"
  THEN CASE op = OP_CMP_EQ -> [c |-> "bool", b |-> cs[l.a] = cs[r.a]]
         [] op = OP_CMP_NE -> [c |-> "bool", b |-> cs[l.a] # cs[r.a]]
         [] op = OP_CMP_LT -> [c |-> "bool", b |-> cs[l.a] < cs[r.a]]
         [] op = OP_CMP_LE -> [c |-> "bool", b |-> cs[l.a] <= cs[r.a]]
         [] op = OP_CMP_GT -> [c |-> "bool", b |-> cs[l.a] > cs[r.a]]
         [] op = OP_CMP_GE -> [c |-> "bool", b |-> cs[l.a] >= cs[r.a]]
  ELSE IF l.t = "str" /\ r.t = "str"
  THEN CASE op = OP_CMP_EQ -> [c |-> "bool", b |-> l.s = r.s]
         [] op = OP_CMP_NE -> [c |-> "bool", b |-> l.s # r.s]
         [] OTHER -> [c |-> "err", m |-> "unsupported string comparison"]
  ELSE [c |-> "err", m |-> "unsupported comparison"]

vmBinary(op, l, r, cs) ==
  IF op \in {OP_ADD, OP_SUB, OP_MUL, OP_DIV} THEN vmArith(op, l, r, cs)
  ELSE vmCompare(op, l, r, cs)

\* The operands: numbers -1 .. MaxOperand (kept in OperandCells), strings,
\* booleans and null.
OperandCells == [i \in 1..(MaxOperand + 2) |-> i - 2]
Operands ==
  {NumberVal(i) : i \in DOMAIN OperandCells}
    \cup {StringVal(""), StringVal("a"), StringVal("1"), StringVal("true"),
          StringVal("null")}
    \cup {BooleanVal(TRUE), BooleanVal(FALSE), NullVal}

\* The kind of an operand, as the claim counts kinds.
KindOfVal(v) == v.t

\* Both implementations applied to the operands.
ApplyBinary ==
  /\ binop.state = "chosen"
  /\ binop' = [op |-> binop.op, l |-> binop.l, r |-> binop.r, state |-> "done",
               ast |-> binaryOp(binop.op, binop.l, binop.r, OperandCells),
               vm |-> vmBinary(binaryOpcode(binop.op), binop.l, binop.r,
                               OperandCells)]
  /\ UNCHANGED <<interp, lexer, parser, vm, hybrid>>

NextBinary == ApplyBinary

SpecBinary ==
  /\ InterpInit({"binary"})
  /\ lexer = LexIdle
  /\ parser = ParseIdle
  /\ vm = VMIdle
  /\ hybrid = HybridIdle
  /\ binop \in {[op |-> o, l |-> a, r |-> b, state |-> "chosen"] :
                  o \in CompiledOperators, a \in Operands, b \in Operands}
  /\ [][NextBinary]_vars

----------------------------------------------------------------------------
(* The bytecode compiler.  A compiler is [code, consts, calls, locals,      *)
(* localsMax, isTopLevel, fns, cells, ctl]: its chunk (code is Chunk.Code,  *)
(* opcodes and operands interleaved, offsets counted from 0), its one       *)
(* function scope, the VMFunctions made so far, the NumberVals allocated    *)
(* so far, and "panic" once a type assertion of the compiler has failed.    *)
(* calls records, for the offset of each OP_CALL, the CallExpr it was       *)
(* emitted for; nothing in the compiler or the VM reads it, nor the locals  *)
(* kept with a finished VMFunction.                                         *)

NewCompilerFor(isTop, fns, cs) ==
  [code |-> <<>>, consts |-> <<>>, calls |-> <<>>, locals |-> NoVars,
   localsMax |-> 0, isTopLevel |-> isTop, fns |-> fns, cells |-> cs,
   ctl |-> "ok"]

NewCompiler == NewCompilerFor(TRUE, <<>>, <<>>)

VMFunction(i) == [t |-> "vmfn", f |-> i]

emit(c, ops) == [c EXCEPT !.code = @ \o ops]

\* The deduplication key of a constant; "" for the values never cached.
getConstKey(v, cs) ==
  CASE v.t = "num" -> "num:" \o ToString(cs[v.a])
    [] v.t = "str" -> "str:" \o v.s
    [] v.t = "bool" -> IF v.b THEN "bool:true" ELSE "bool:false"
    [] v.t = "null" -> "null"
    [] OTHER -> ""

\* The index addConst returns for v, and the compiler after addConst.
constIndex(c, v, cs) ==
  LET key == getConstKey(v, cs)
      hits == {i \in 1..Len(c.consts) : getConstKey(c.consts[i], cs) = key}
  IN IF key # "" /\ hits # {} THEN (CHOOSE i \in hits : TRUE) - 1
     ELSE Len(c.consts)
addConst(c, v, cs) ==
  IF constIndex(c, v, cs) < Len(c.consts) THEN c
  ELSE [c EXCEPT !.consts = Append(@, v)]

\* emit(op, addConst(v)) for a string, null or function constant.
emitConst(c, op, v) ==
  emit(addConst(c, v, c.cells), <<op, constIndex(c, v, c.cells)>>)

\* emit(OP_CONST, addConst(&NumberVal{Value: n})).
emitNumber(c, n) ==
  LET cs == Append(c.cells, n)
      v == NumberVal(Len(cs))
  IN emit([addConst(c, v, cs) EXCEPT !.cells = cs],
          <<OP_CONST, constIndex(c, v, cs)>>)

\* The slot ensureLocal returns, and the compiler after ensureLocal.
localSlot(c, name) ==
  IF name \in DOMAIN c.locals THEN c.locals[name] ELSE c.localsMax
ensureLocal(c, name) ==
  IF name \in DOMAIN c.locals THEN c
  ELSE [c EXCEPT !.locals = Put(@, name, c.localsMax), !.localsMax = @ + 1]

\* c.chunk.Code[jumpPos+1] = target
patch(c, jumpPos, target) == [c EXCEPT !.code[jumpPos + 2] = target]

\* The opcode of each function tryOptimizeMathCall rewrites, and the
\* number of arguments it rewrites it at.
mathOpcode(name) ==
  CASE name = "pow" -> OP_POW [] name = "sqrt" -> OP_SQRT
    [] name = "sin" -> OP_SIN [] name = "cos" -> OP_COS
    [] name = "log" -> OP_LOG [] name = "exp" -> OP_EXP
    [] name = "abs" -> OP_ABS [] name = "floor" -> OP_FLOOR
    [] name = "ceil" -> OP_CEIL

\* Whether tryOptimizeMathCall returns true for the call.
isMathCall(call) ==
  /\ call.callee.k = "member"
  /\ call.callee.object.k = "id"
  /\ call.callee.object.sym \in {"math", "m"}
  /\ call.callee.property \in MathNames
  /\ Len(call.args) = mathArity(call.callee.property)

\* The statements that are no ast.Expr and have no case of their own in
\* compileStmt: the assertion n.(ast.Expr) of the default case panics.
NotExpr == {"block", "try", "break", "continue"}

\* An expression the compiler has no code for leaves nothing on the stack.
noPlaceholder(c) == c

\* The null pushed in place of an expression the compiler has no code for.
placeholder(c) == emitConst(c, OP_CONST, NullVal)

RECURSIVE compileStmt(_, _), compileExpr(_, _), compileBlock(_, _, _),
          compileArgs(_, _, _), compileFunction(_, _), reserveParams(_, _, _),
          tryOptimizeMathCall(_, _)

compileArgs(args, i, c) ==
  IF i > Len(args) THEN c ELSE compileArgs(args, i + 1, compileExpr(args[i], c))

\* The compiler after a tryOptimizeMathCall that returned true.
tryOptimizeMathCall(call, c) ==
  emit(compileArgs(call.args, 1, c), <<mathOpcode(call.callee.property)>>)

compileExpr(e, c) ==
  CASE e.k = "num" ->
         IF e.n = 0 THEN emit(c, <<OP_LOAD_CONST_0>>)
         ELSE IF e.n = 1 THEN emit(c, <<OP_LOAD_CONST_1>>)
         ELSE emitNumber(c, e.n)
    [] e.k = "str" -> emitConst(c, OP_CONST, StringVal(e.s))
    [] e.k = "bool" ->
         IF e.b THEN emit(c, <<OP_LOAD_TRUE>>) ELSE emit(c, <<OP_LOAD_FALSE>>)
    [] e.k = "id" ->
         IF e.sym \in DOMAIN c.locals
         THEN emit(c, <<OP_LOAD_LOCAL, c.locals[e.sym]>>)
         ELSE emitConst(c, OP_LOAD_GLOBAL, StringVal(e.sym))
    [] e.k = "bin" ->
         LET both == compileExpr(e.right, compileExpr(e.left, c))
         IN IF binaryOpcode(e.op) = NoOpcode THEN both
            ELSE emit(both, <<binaryOpcode(e.op)>>)
    [] e.k = "call" /\ isMathCall(e) -> tryOptimizeMathCall(e, c)
    [] e.k = "call" /\ ~isMathCall(e) ->
         LET pushed == compileArgs(e.args, 1, compileExpr(e.callee, c))
         IN [emit(pushed, <<OP_CALL, Len(e.args)>>) EXCEPT
               !.calls = Append(@, [at |-> Len(pushed.code), node |-> e])]
    [] e.k = "member" ->
         emitConst(compileExpr(e.object, c), OP_GET_PROP, StringVal(e.property))
    [] OTHER -> placeholder(c)

compileBlock(stmts, i, c) ==
  IF i > Len(stmts) \/ c.ctl # "ok" THEN c
  ELSE compileBlock(stmts, i + 1, compileStmt(stmts[i], c))

reserveParams(params, i, c) ==
  IF i > Len(params) THEN c
  ELSE reserveParams(params, i + 1, ensureLocal(c, params[i]))

\* The compiler after compileFunction; the VMFunction is the newest of fns.
compileFunction(fd, c) ==
  LET inner == reserveParams(fd.params, 1, NewCompilerFor(FALSE, c.fns, c.cells))
      body == compileBlock(fd.body.stmts, 1, inner)
      done == emit(body, <<OP_LOAD_NULL, OP_RET>>)
  IN [c EXCEPT !.ctl = done.ctl,
               !.cells = done.cells,
               !.fns = Append(done.fns,
                              [name |-> fd.name, arity |-> Len(fd.params),
                               code |-> done.code, consts |-> done.consts,
                               calls |-> done.calls, locals |-> done.locals,
                               localsMax |-> done.localsMax])]

compileStmt(s, c) ==
  CASE s.k = "decl" ->
         LET value == compileExpr(s.value, c)
         IN IF c.isTopLevel THEN emitConst(value, OP_STORE_GLOBAL, StringVal(s.sym))
            ELSE emit(ensureLocal(value, s.sym),
                      <<OP_STORE_LOCAL, localSlot(value, s.sym)>>)
    [] s.k = "asg" ->
         IF s.assignee.k # "id" THEN c
         ELSE LET value == compileExpr(s.value, c)
              IN IF s.assignee.sym \in DOMAIN c.locals
                 THEN emit(value, <<OP_STORE_LOCAL, c.locals[s.assignee.sym]>>)
                 ELSE emitConst(value, OP_STORE_GLOBAL, StringVal(s.assignee.sym))
    [] s.k = "if" ->
         LET cond == compileExpr(s.cond, c)
             jfalse == Len(cond.code)
             cons == compileBlock(s.cons.stmts, 1,
                                  emit(cond, <<OP_JUMP_IF_FALSE, -1>>))
             jend == Len(cons.code)
             else == patch(emit(cons, <<OP_JUMP, -1>>), jfalse, Len(cons.code) + 2)
             alt == IF s.alt = NoBlock THEN else
                    ELSE compileBlock(s.alt.stmts, 1, else)
         IN patch(alt, jend, Len(alt.code))
    [] s.k = "while" ->
         LET start == Len(c.code)
             cond == compileExpr(s.cond, c)
             jfalse == Len(cond.code)
             body == compileBlock(s.body.stmts, 1,
                                  emit(cond, <<OP_JUMP_IF_FALSE, -1>>))
         IN patch(emit(body, <<OP_JUMP, start>>), jfalse, Len(body.code) + 2)
    [] s.k = "for" ->
         LET slot == localSlot(c, s.sym)
             init == emit(ensureLocal(c, s.sym),
                          <<OP_LOAD_CONST_0, OP_STORE_LOCAL, slot>>)
             range == compileExpr(s.range, init)
             loopStart == Len(range.code)
             jfalse == loopStart + 2
             body == compileBlock(s.body.stmts, 1,
                       emit(range, <<OP_FOR_LOOP_NEXT, slot, OP_JUMP_IF_FALSE, -1>>))
             back == emit(body, <<OP_JUMP, loopStart>>)
         IN emit(patch(back, jfalse, Len(back.code)), <<OP_POP>>)
    [] s.k = "fn" ->
         LET made == compileFunction(s, c)
             fn == VMFunction(Len(made.fns))
         IN IF c.isTopLevel
            THEN emitConst(emitConst(made, OP_CONST, fn),
                           OP_STORE_GLOBAL, StringVal(s.name))
            ELSE emit(emitConst(ensureLocal(made, s.name), OP_CONST, fn),
                      <<OP_STORE_LOCAL, localSlot(made, s.name)>>)
    [] s.k = "return" -> emit(compileExpr(s.value, c), <<OP_RET>>)
    [] s.k = "import" ->
         LET alias == addConst(c, StringVal(s.alias), c.cells)
             path == addConst(alias, StringVal(s.path), c.cells)
         IN emit(path, <<OP_IMPORT,
                         constIndex(c, StringVal(s.alias), c.cells),
                         constIndex(alias, StringVal(s.path), c.cells)>>)
    [] s.k \in NotExpr -> [c EXCEPT !.ctl = "panic"]
    [] OTHER -> emit(compileExpr(s, c), <<OP_POP>>)

\* copy(code[to:], code[from:]), offsets counted from 0.
copyDown(code, to, from) ==
  [j \in 1..Len(code) |->
     IF j > to /\ j + (from - to) <= Len(code) THEN code[j + (from - to)]
     ELSE code[j]]

\* The fast opcode the peephole pass puts in place of OP_CONST k.
fastOpcode(k, cs) ==
  IF k.t = "num" /\ cs[k.a] = 0 THEN OP_LOAD_CONST_0
  ELSE IF k.t = "num" /\ cs[k.a] = 1 THEN OP_LOAD_CONST_1
  ELSE IF k.t = "bool" THEN (IF k.b THEN OP_LOAD_TRUE ELSE OP_LOAD_FALSE)
  ELSE NoOpcode

\* The loop of optimize from offset i.  code is the local slice, which
\* keeps its length while the rewrites shift its elements; keep is the
\* length of c.chunk.Code, which shares its elements.
RECURSIVE optimizeFrom(_, _, _, _)
optimizeFrom(c, code, keep, i) ==
  IF ~(i < Len(code) - 2) THEN [c EXCEPT !.code = SubSeq(code, 1, keep)]
  ELSE LET at(k) == code[k + 1]
           const(k) == c.consts[at(k) + 1]
       IN IF /\ at(i) = OP_CONST
             /\ at(i + 1) < Len(c.consts)
             /\ fastOpcode(const(i + 1), c.cells) # NoOpcode
          THEN optimizeFrom(c,
                 copyDown([code EXCEPT ![i + 1] = fastOpcode(const(i + 1), c.cells)],
                          i + 1, i + 2),
                 Len(code) - 1, i + 1)
          ELSE IF /\ i + 5 < Len(code)
                  /\ at(i) = OP_LOAD_LOCAL
                  /\ at(i + 2) = OP_CONST
                  /\ at(i + 4) = OP_ADD
                  /\ at(i + 5) = OP_STORE_LOCAL
          THEN IF i + 6 >= Len(code) THEN [c EXCEPT !.ctl = "panic"]
               ELSE IF /\ at(i + 1) = at(i + 6)
                       /\ at(i + 3) < Len(c.consts)
                       /\ fastOpcode(const(i + 3), c.cells) = OP_LOAD_CONST_1
               THEN optimizeFrom(c,
                      copyDown([code EXCEPT ![i + 1] = OP_INCREMENT_LOCAL],
                               i + 2, i + 7),
                      Len(code) - 5, i + 1)
               ELSE optimizeFrom(c, code, keep, i + 1)
          ELSE optimizeFrom(c, code, keep, i + 1)

optimize(c) == optimizeFrom(c, c.code, Len(c.code), 0)

\* The compiler after Compile, with <main> the newest of fns.
withMain(done) ==
  [done EXCEPT !.fns = Append(@, [name |-> "<main>", arity |-> 0,
                                  code |-> done.code, consts |-> done.consts,
                                  calls |-> done.calls,
                                  locals |-> done.locals,
                                  localsMax |-> done.localsMax])]

\* The end of Compile: body is the compiler after the statements.
finishMain(body) ==
  IF body.ctl # "ok" THEN body
  ELSE optimize(emit(body, <<OP_LOAD_NULL, OP_RET>>))

\* Compile: the compiler after it.
Compile(prog) == withMain(finishMain(compileBlock(prog, 1, NewCompiler)))

----------------------------------------------------------------------------
(* The VM.  A VM is [stack, len, sp, frames, envs, fns, cells, out, ctl,    *)
(* msg, res] and the record of its latest step.  stack holds the slots of   *)
(* vm.stack up to the highest one written, len is len(vm.stack); offsets    *)
(* count from 0.  envs holds one Environment, the globals.  ctl is "ok",    *)
(* "err" (Run returned an *Error), "panic" or "done" (Run returned res).    *)
(* pops lists what the pops of the latest step read, live the slots that   *)
(* hold a value pushed and not popped yet.                                  *)

StackSize == 1024

\* A slot of the stack that holds nil: nothing has been written into it, or
\* pop has cleared it.  Also what pops records for a slot that holds no
\* pushed value.
Unpushed == [t |-> "unpushed"]

Globals == 1

RECURSIVE Fill(_, _)
Fill(stack, n) == IF Len(stack) >= n THEN stack ELSE Fill(Append(stack, Unpushed), n)

\* vm.stack[k] read as a RuntimeVal.
slot(m, k) ==
  IF k < Len(m.stack) /\ m.stack[k + 1] # Unpushed THEN m.stack[k + 1] ELSE NilVal

vmPanic(m, text) == [m EXCEPT !.ctl = "panic", !.msg = text, !.res = NilVal]
vmError(m, text) == [m EXCEPT !.ctl = "err", !.msg = text, !.res = NilVal]

\* vm.stack[k] = v
setSlot(m, k, v) ==
  IF k < 0 \/ k >= m.len THEN vmPanic(m, "index out of range")
  ELSE [m EXCEPT !.stack = [Fill(@, k + 1) EXCEPT ![k + 1] = v]]

\* vm.stack[k], for the reads that index the slice directly.
readSlot(m, k) ==
  IF k < 0 \/ k >= m.len THEN vmPanic(m, "index out of range")
  ELSE [m EXCEPT !.res = slot(m, k)]

push(m, v) ==
  IF m.ctl # "ok" THEN m
  ELSE LET grown == IF m.sp >= m.len THEN [m EXCEPT !.len = 2 * @] ELSE m
           set == setSlot(grown, m.sp, v)
       IN IF set.ctl # "ok" THEN set
          ELSE [set EXCEPT !.sp = @ + 1, !.live = @ \cup {m.sp}]

\* pushConst0, pushConst1, pushTrue, pushFalse, pushNull
pushFast(m, v) ==
  IF m.ctl # "ok" THEN m
  ELSE LET set == setSlot(m, m.sp, v)
       IN IF set.ctl # "ok" THEN set
          ELSE [set EXCEPT !.sp = @ + 1, !.live = @ \cup {m.sp}]

\* pop; the value is left in res and the slot cleared.  pops records what
\* was read, Unpushed for a slot no push has filled since the last pop of
\* it.
pop(m) ==
  IF m.ctl # "ok" THEN m
  ELSE IF m.sp - 1 < 0 \/ m.sp - 1 >= m.len
  THEN [vmPanic(m, "index out of range") EXCEPT
          !.sp = @ - 1, !.pops = Append(@, Unpushed)]
  ELSE [m EXCEPT !.sp = @ - 1,
                 !.res = slot(m, m.sp - 1),
                 !.pops = Append(@, IF m.sp - 1 \in m.live
                                    THEN slot(m, m.sp - 1) ELSE Unpushed),
                 !.live = @ \ {m.sp - 1},
                 !.stack = [Fill(@, m.sp) EXCEPT ![m.sp] = Unpushed]]

\* peek; the value is left in res.
vmPeek(m) == IF m.ctl # "ok" THEN m ELSE readSlot(m, m.sp - 1)

\* &NumberVal{Value: n}
newNumber(m, n) == [m EXCEPT !.cells = Append(@, n)]
numberOf(m) == NumberVal(Len(m.cells))

callFunction(m, fn, argc) ==
  [m EXCEPT !.frames = Append(@, [fn |-> fn, ip |-> 0, base |-> m.sp - argc])]

NewVM(c) ==
  [stack |-> <<>>, len |-> StackSize, sp |-> 0, live |-> {}, frames |-> <<>>,
   envs |-> <<[parent |-> 0, variables |-> [n \in Builtins |-> Function(n)],
               constants |-> Builtins]>>,
   fns |-> c.fns, cells |-> c.cells, out |-> <<>>,
   ctl |-> "ok", msg |-> "", res |-> NilVal, pops |-> <<>>]

Frame(m) == m.frames[Len(m.frames)]
Code(m) == m.fns[Frame(m).fn].code
Consts(m) == m.fns[Frame(m).fn].consts

\* fr.ip = ip
jump(m, ip) == [m EXCEPT !.frames[Len(m.frames)].ip = ip]

\* r := vm.pop(); l := vm.pop(), then the opcode on both.
vmBinaryStep(m, op) ==
  LET r == pop(m)
      l == pop(r)
      o == vmBinary(op, l.res, r.res, m.cells)
  IN IF l.ctl # "ok" THEN l
     ELSE CASE o.c = "num" -> push(newNumber(l, o.n), numberOf(newNumber(l, o.n)))
            [] o.c = "bool" -> push(l, BooleanVal(o.b))
            [] o.c = "str" -> push(l, StringVal(o.s))
            [] o.c = "err" -> vmError(l, o.m)
            [] OTHER -> vmPanic(l, o.m)

\* args[i] = vm.pop() for i from argc-1 down to 0; the args are left in res.
RECURSIVE popArgs(_, _, _)
popArgs(m, n, args) ==
  IF n = 0 \/ m.ctl # "ok" THEN [m EXCEPT !.res = args]
  ELSE LET p == pop(m) IN popArgs(p, n - 1, <<p.res>> \o args)

\* case OP_CALL, after fr.ip++
vmCall(m, argc) ==
  LET callee == readSlot(m, m.sp - argc - 1)
  IN IF callee.ctl # "ok" THEN callee
     ELSE IF callee.res.t = "builtin"
     THEN LET args == popArgs(m, argc, <<>>)
              gone == pop(args)
          IN IF gone.ctl # "ok" THEN gone
             ELSE LET ret == callBuiltin(callee.res.name, args.res, gone)
                  IN push(ret, ret.res)
     ELSE IF callee.res.t = "vmfn" THEN callFunction(m, callee.res.f, argc)
     ELSE vmError(m, "not a function")

\* The stack after `vm.stack = vm.stack[:vm.sp]`: the slots from sp on are
\* out of the slice, and nil once push has made the new one.
truncate(m) ==
  [m EXCEPT !.stack = SubSeq(Fill(@, m.sp), 1, m.sp), !.len = m.sp,
            !.live = {k \in @ : k < m.sp}]

\* case OP_RET
vmRet(m) ==
  LET retVal == pop(m)
      frame == Frame(m)
      left == [retVal EXCEPT !.frames = SubSeq(@, 1, Len(@) - 1)]
  IN IF retVal.ctl # "ok" THEN retVal
     ELSE IF Len(left.frames) = 0 THEN [left EXCEPT !.ctl = "done"]
     ELSE push(truncate([left EXCEPT !.sp = frame.base - 1]), retVal.res)

\* case OP_LOAD_GLOBAL
vmLoadGlobal(m, name) ==
  IF Resolve(m.envs, Globals, name) = 0
  THEN vmPanic(m, "Cannot resolve. Variable does not exist.")
  ELSE push(m, LookupVar(m.envs, Globals, name))

\* case OP_GET_PROP
vmGetProp(m, name) ==
  LET obj == pop(m)
  IN IF obj.ctl # "ok" THEN obj
     ELSE IF obj.res.t = "map"
     THEN IF name \in ModuleFunctions(obj.res.m) THEN push(obj, Function(name))
          ELSE IF name \in ModuleNumbers(obj.res.m)
          THEN push(newNumber(obj, name), numberOf(newNumber(obj, name)))
          ELSE vmError(obj, "unknown property: " \o name)
     ELSE IF obj.res = NilVal THEN vmPanic(obj, "nil pointer dereference")
     ELSE vmError(obj, "cannot get property '" \o name \o "'")

\* case OP_IMPORT
vmImport(m, alias, path) ==
  IF path \notin Modules THEN vmError(m, "unknown module: " \o path)
  ELSE LET declared == DeclareVar(m, Globals, alias, MapVal(path), TRUE)
       IN [declared EXCEPT !.res = m.res]

\* case OP_POW, OP_SQRT, OP_SIN, OP_COS, OP_LOG, OP_EXP, OP_ABS, OP_FLOOR,
\* OP_CEIL
vmMath(m, name) ==
  LET xs == popArgs(m, mathArity(name), <<>>)
      o == mathApply(name, xs.res, m.cells)
  IN IF xs.ctl # "ok" THEN xs
     ELSE IF o.c = "err" THEN vmError(xs, o.m)
     ELSE push(newNumber(xs, o.n), numberOf(newNumber(xs, o.n)))

\* case OP_STORE_GLOBAL
vmStoreGlobal(m, name) ==
  LET val == pop(m)
  IN IF val.ctl # "ok" THEN val
     ELSE IF name \in DOMAIN m.envs[Globals].variables
     THEN [val EXCEPT !.envs[Globals].variables[name] = val.res]
     ELSE DeclareVar(val, Globals, name, val.res, FALSE)

\* case OP_FOR_LOOP_NEXT
vmForLoopNext(m, at) ==
  LET counter == readSlot(m, at)
      limit == vmPeek(counter)
  IN IF limit.ctl # "ok" THEN limit
     ELSE IF counter.res.t # "num" \/ limit.res.t # "num"
     THEN vmError(m, "for loop requires numeric values")
     ELSE LET pushed == push(m, BooleanVal(m.cells[counter.res.a] < m.cells[limit.res.a]))
              next == newNumber(pushed, m.cells[counter.res.a] + 1)
          IN IF pushed.ctl # "ok" THEN pushed ELSE setSlot(next, at, numberOf(next))

\* case OP_INCREMENT_LOCAL
vmIncrementLocal(m, at) ==
  LET num == readSlot(m, at)
  IN IF num.ctl # "ok" THEN num
     ELSE IF num.res.t # "num" THEN vmError(m, "cannot increment non-number")
     ELSE LET next == newNumber(m, m.cells[num.res.a] + 1)
          IN setSlot(next, at, numberOf(next))

\* The end of Run once the frames are used up without a OP_RET.
vmFinish(m) ==
  IF m.sp > 0 THEN [pop(m) EXCEPT !.ctl = IF @ = "ok" THEN "done" ELSE @]
  ELSE [m EXCEPT !.ctl = "done", !.res = NullVal]

\* One pass of the loop of Run.
vmStep(m) ==
  LET fr == Frame(m)
      code == Code(m)
      consts == Consts(m)
  IN IF fr.ip >= Len(code)
     THEN LET left == [m EXCEPT !.frames = SubSeq(@, 1, Len(@) - 1)]
          IN IF Len(left.frames) = 0 THEN vmFinish(left) ELSE left
     ELSE
     LET op == code[fr.ip + 1]
         arg == code[fr.ip + 2]
         m1 == jump(m, fr.ip + 1)
         m2 == jump(m, fr.ip + 2)
     IN CASE op = OP_CONST -> push(m2, consts[arg + 1])
          [] op = OP_LOAD_GLOBAL -> vmLoadGlobal(m2, consts[arg + 1].s)
          [] op = OP_STORE_GLOBAL -> vmStoreGlobal(m2, consts[arg + 1].s)
          [] op = OP_LOAD_LOCAL ->
               LET local == readSlot(m2, fr.base + arg)
               IN push(local, local.res)
          [] op = OP_STORE_LOCAL ->
               LET top == vmPeek(m2)
               IN IF top.ctl # "ok" THEN top ELSE setSlot(top, fr.base + arg, top.res)
          [] op \in {OP_ADD, OP_SUB, OP_MUL, OP_DIV, OP_CMP_EQ, OP_CMP_NE,
                     OP_CMP_LT, OP_CMP_LE, OP_CMP_GT, OP_CMP_GE} ->
               vmBinaryStep(m1, op)
          [] op = OP_JUMP -> jump(m1, arg)
          [] op = OP_JUMP_IF_FALSE ->
               LET cond == pop(m2)
               IN IF cond.ctl = "ok" /\ cond.res.t = "bool" /\ ~cond.res.b
                  THEN jump(cond, arg) ELSE cond
          [] op = OP_CALL -> vmCall(m2, arg)
          [] op = OP_RET -> vmRet(m1)
          [] op = OP_POP -> pop(m1)
          [] op = OP_GET_PROP -> vmGetProp(m2, consts[arg + 1].s)
          [] op = OP_IMPORT ->
               vmImport(jump(m, fr.ip + 3), consts[arg + 1].s,
                        consts[code[fr.ip + 3] + 1].s)
          [] op \in {mathOpcode(name) : name \in MathNames} ->
               vmMath(m1, CHOOSE name \in MathNames : mathOpcode(name) = op)
          [] op = OP_LOAD_CONST_0 -> pushFast(newNumber(m1, 0), numberOf(newNumber(m1, 0)))
          [] op = OP_LOAD_CONST_1 -> pushFast(newNumber(m1, 1), numberOf(newNumber(m1, 1)))
          [] op = OP_LOAD_TRUE -> pushFast(m1, BooleanVal(TRUE))
          [] op = OP_LOAD_FALSE -> pushFast(m1, BooleanVal(FALSE))
          [] op = OP_LOAD_NULL -> pushFast(m1, NullVal)
          [] op = OP_INCREMENT_LOCAL -> vmIncrementLocal(m2, fr.base + arg)
          [] op = OP_FOR_LOOP_NEXT -> vmForLoopNext(m2, fr.base + arg)
          [] OTHER -> vmError(m1, "unknown opcode")

\* The programs given to the compiler and the VM.  Functions: f adds one
\* to its parameter, g subtracts its second from its first, h calls f on
\* its parameter through a local, k declares a local in one branch only.
FnF == Funct("f", <<"p">>, Block(<<Return(Bin("+", Id("p"), Num(1)))>>))
FnG == Funct("g", <<"a", "b">>, Block(<<Return(Bin("-", Id("a"), Id("b")))>>))
FnH ==
  Funct("h", <<"x">>,
        Block(<<Let("y", Call(Id("f"), <<Id("x")>>)), Return(Id("y"))>>))
FnK ==
  Funct("k", <<"c">>,
        Block(<<If(Id("c"), Block(<<Let("u", Num(4))>>), NoBlock),
                Let("w", Num(2)),
                For("i", Id("w"), Block(<<Println(Id("i"))>>)),
                Return(Id("w"))>>))
FnDecls == <<FnF, FnG, FnH, FnK, Let("v", Num(7))>>

\* The forms of an argument.
ArgForms ==
  <<Num(5), Num(0), Str("a"), Bool(TRUE), Id("v"), Bin("+", Num(2), Num(3)),
    Bin("<", Num(2), Id("v")), Bin("%", Num(7), Num(2)),
    Bin("&&", Bool(TRUE), Bool(FALSE)), Bin("||", Bool(FALSE), Bool(TRUE)),
    Call(Id("f"), <<Num(1)>>), Unary("++", Id("v"), FALSE)>>

\* The calls: every function on every form of argument, and some calls
\* with too few or too many arguments.
Calls ==
  {Call(Id(fn), <<ArgForms[i]>>) :
     fn \in {"f", "h", "k", "println"}, i \in 1..Len(ArgForms)}
  \cup {Call(Id("g"), <<ArgForms[i], ArgForms[j]>>) :
          i \in 1..Len(ArgForms), j \in {1, 5, 8}}
  \cup {Call0("f"), Call0("println"), Call(Id("f"), <<Num(5), Num(6)>>),
        Call(Id("v"), <<Num(5)>>), Call(Id("nope"), <<>>),
        Call(Id("k"), <<Bool(FALSE)>>), Call0("h")}

\* The places a call is made from: a statement of its own, the right
\* operand of an addition, a declaration, after a loop that left its
\* counter on the stack, and the body of a loop.
CallPlaces == 1..5
Placed(call, place) ==
  CASE place = 1 -> <<call>>
    [] place = 2 -> <<Bin("+", Num(2), call)>>
    [] place = 3 -> <<Let("r", Bin("+", Num(2), call)), Println(Id("r"))>>
    [] place = 4 -> <<For("i", Num(2), Block(<<Println(Id("i"))>>)), call,
                      Println(Bin("+", Num(1), Num(1)))>>
    [] place = 5 -> <<Let("n", Num(0)),
                      While(Bin("<", Id("n"), Num(2)),
                            Block(<<Asg("r", Bin("+", Num(2), call)),
                                    Asg("n", Bin("+", Id("n"), Num(1)))>>))>>

\* Programs without calls of VM functions, and programs compileStmt has no
\* code for.
PlainPrograms ==
  {<<Let("a", Num(1)), Asg("a", Bin("+", Id("a"), Num(1))), Println(Id("a"))>>,
   <<Unary("++", Id("v"), FALSE), Asg("b", Str("s")), Bin("==", Id("b"), Str("s"))>>,
   <<If(Bin("<", Num(1), Num(2)), Block(<<Println(Num(1))>>),
        Block(<<Println(Num(2))>>)), Return(Num(3)), Println(Num(4))>>,
   <<For("i", Num(2), Block(<<Asg("i", Num(5))>>)), For("j", Str("x"), Block(<<>>))>>,
   <<Bin("/", Num(1), Num(0))>>,
   <<Let("z", Num(0)), Bool(TRUE),
     For("i", Num(2), Block(<<Asg("i", Bin("+", Id("i"), Num(1)))>>)), Id("z")>>,
   <<Bin("%", Num(7), Num(2)), Bin("&&", Bool(TRUE), Bool(FALSE))>>,
   <<Bin("+", Num(1), Bin("+", Num(1), Bin("+", Num(1), Num(1))))>>,
   <<Break>>,
   <<Block(<<Num(1)>>)>>,
   <<Funct("q", <<>>, Block(<<Continue>>))>>,
   <<Try(Block(<<Num(1)>>), "e", Block(<<>>))>>}

\* Calls of the properties of a module: a function of fmaths and its
\* arguments, at the number tryOptimizeMathCall rewrites and at others.
MathForms ==
  {<<"pow", <<Num(2), Num(3)>>>>, <<"pow", <<Num(2)>>>>,
   <<"pow", <<Str("a"), Num(1)>>>>, <<"pow", <<Bin("%", Num(7), Num(2)), Num(3)>>>>,
   <<"sqrt", <<Num(4)>>>>, <<"sqrt", <<Bin("-", Num(0), Num(1))>>>>,
   <<"sin", <<Num(0)>>>>, <<"cos", <<Num(0)>>>>, <<"log", <<Num(1)>>>>,
   <<"log", <<Num(0)>>>>, <<"exp", <<Num(0)>>>>,
   <<"abs", <<Bin("-", Num(0), Num(3))>>>>, <<"abs", <<Bin("%", Num(7), Num(2))>>>>,
   <<"abs", <<>>>>, <<"abs", <<Num(1), Num(2)>>>>, <<"floor", <<Num(2)>>>>,
   <<"ceil", <<Num(2)>>>>, <<"ceil", <<Bool(TRUE)>>>>,
   <<"nope", <<Num(1)>>>>, <<"pi", <<>>>>}

\* The statements before the call, which bind a variable or none, and the
\* variable the call is made on.
MathImports ==
  {<<>>, <<Import("fmaths", "m")>>, <<Import("fmaths", "q")>>,
   <<Import("time", "m")>>, <<Import("nomod", "m")>>, <<Let("m", Str("s"))>>}
MathObjects == {"m", "math", "q"}

MathPrograms ==
  {imports \o Placed(Call(Member(Id(obj), form[1]), form[2]), place) :
     imports \in MathImports, obj \in MathObjects, form \in MathForms,
     place \in {1, 3}}
    \cup {<<Import("fmaths", "q"), Member(Id("q"), "pi")>>,
          <<Let("v", Num(7)), Member(Id("v"), "x")>>,
          <<Import("fmaths", "q"), Import("time", "q")>>}

\* for range(i, N) over a body that prints i: as the only statement of the
\* program, and as the body of a function that is called.
PrintsRange(n) == For("i", Num(n), Block(<<Println(Id("i"))>>))
ForPrograms ==
  {<<PrintsRange(n)>> : n \in 0..3}
    \cup {<<Funct("w", <<>>, Block(<<PrintsRange(n)>>)), Call0("w")>> : n \in 0..3}

VMPrograms ==
  {FnDecls \o Placed(call, place) : call \in Calls, place \in CallPlaces}
    \cup PlainPrograms \cup MathPrograms \cup ForPrograms

\* Run(entry), up to the loop.
Run(c) == callFunction(NewVM(c), Len(c.fns), 0)

\* The VM record of a program the compiler left c for.
started(prog, c) ==
  IF c.ctl # "ok" THEN [state |-> "rejected", prog |-> prog]
  ELSE [state |-> "run", prog |-> prog, m |-> Run(c),
        before |-> Run(c), op |-> NoOpcode, arg |-> 0, steps |-> 0]

\* NewCompiler().Compile(prog) and NewVM(globals).Run(entry) up to its loop;
\* a program the compiler panics on is not run.
VMCompile ==
  /\ vm.state = "new"
  /\ vm' = started(vm.prog, Compile(vm.prog))
  /\ UNCHANGED <<interp, lexer, parser, binop, hybrid>>

\* One pass of the loop of Run.  before is the VM as the pass found it, op
\* and arg the opcode it executed and the element of the code after it.
VMStep ==
  /\ vm.state = "run"
  /\ vm.steps < MaxVMSteps
  /\ LET m == [vm.m EXCEPT !.pops = <<>>]
         fr == Frame(m)
         ended == fr.ip >= Len(Code(m))
         after == vmStep(m)
     IN vm' = [vm EXCEPT
                 !.m = after,
                 !.before = m,
                 !.op = IF ended THEN NoOpcode ELSE Code(m)[fr.ip + 1],
                 !.arg = IF ended \/ fr.ip + 2 > Len(Code(m)) THEN 0
                         ELSE Code(m)[fr.ip + 2],
                 !.steps = @ + 1,
                 !.state = IF after.ctl = "ok" THEN "run" ELSE after.ctl]
  /\ UNCHANGED <<interp, lexer, parser, binop, hybrid>>

NextVM == VMCompile \/ VMStep

SpecVM ==
  /\ InterpInit({"vm"})
  /\ lexer = LexIdle
  /\ parser = ParseIdle
  /\ binop = BinopIdle
  /\ hybrid = HybridIdle
  /\ vm \in {[state |-> "new", prog |-> p] : p \in VMPrograms}
  /\ [][NextVM]_vars

----------------------------------------------------------------------------
(* Properties *)

InSeq(x, seq) == \E i \in 1..Len(seq) : seq[i] = x

\* What a name of the global scope reads as: a number by its payload.
BoundValue(es, cs, name) ==
  LET v == LookupVar(es, GlobalEnv, name)
  IN IF v.t = "num" THEN [t |-> "num", n |-> cs[v.a]] ELSE v

ConstMsg == "Cannot assign to constant variable."

\* The statement just evaluated attempts an assignment to `name`.
AttemptsAssign(name) ==
  \/ name = "c" /\ InSeq(last, AssignsC)
  \/ name = "c" /\ last = Call0("f") /\ "f" \in DOMAIN pre.envs[GlobalEnv].variables
  \/ name = "g" /\ InSeq(last, AssignsG)
  \/ name = "m" /\ InSeq(last, AssignsM)

\* C1: once a name is bound as a constant, every later assignment to it
\* (from the declaring scope, a nested block or a function body, also of the
\* form x = x + k) fails with the constant-reassignment error and leaves the
\* bound value unchanged.
C1_ConstantNeverReassigned ==
  \A name \in {"c", "g", "m"} :
    (name \in pre.envs[GlobalEnv].constants /\ AttemptsAssign(name))
      => /\ status = "panic"
         /\ msg = ConstMsg
         /\ BoundValue(envs, cells, name) = BoundValue(pre.envs, pre.cells, name)

Bound(es, name) == name \in DOMAIN es[GlobalEnv].variables

\* C2: evaluating a block (if/else branch, while body, try or catch block),
\* whatever its number of statements, adds no binding to the environment
\* the block was entered from.
C2_BlockAddsNoBinding ==
  InSeq(last, BlockStmts)
    => DOMAIN envs[GlobalEnv].variables = DOMAIN pre.envs[GlobalEnv].variables

Lines(ns) == [i \in 1..Len(ns) |-> "[println]: " \o ToString(ns[i])]

\* C3: a break or continue executed in a function body outside any loop of
\* that body never ends or skips an iteration of the caller's loop: the loop
\* runs as if the call had returned an ordinary value.
C3_BreakStaysInFunction ==
  /\ (last = ForCallsF /\ Bound(pre.envs, "f") /\ pre.out = <<>>)
       => (status = "run" /\ out = Lines(<<0, 1, 2>>))
  /\ (last = WhileCallsF /\ Bound(pre.envs, "f") /\ pre.out = <<>>
        /\ BoundValue(pre.envs, pre.cells, "n") = [t |-> "num", n |-> 0])
       => (status = "run" /\ out = Lines(<<1, 2, 3>>))

\* C4: a conditional (if, while) takes a value for false exactly when it is
\* false, 0, the empty string or Null (also the Null bound to a parameter
\* that received no argument), and for true otherwise.
C4_Truthiness ==
  \A f \in {"t", "w"} :
    (last.k = "call" /\ last.callee = Id(f) /\ Bound(pre.envs, f))
      => /\ status = "run"
         /\ out = Append(pre.out, IF last.args \in FalseArgs
                                  THEN "[println]: F" ELSE "[println]: T")

\* C5: numbers are immutable values: after `let b = a`, or after a is passed
\* as the argument bound to p, no assignment to b or to p changes the value
\* read through a.
C5_NumbersImmutable ==
  Bound(envs, "a") => BoundValue(envs, cells, "a") = [t |-> "num", n |-> 1]

\* C6: every runtime failure raised while a try block is evaluated
\* transfers control to that try's catch block; none ends the program
\* without running the catch block.
C6_TryCatchesEveryFailure ==
  InSeq(last, TryStmts) => (status = "run" /\ Len(out) = Len(pre.out) + 1)

\* C7: evaluating an identifier fails with the undefined-variable error if
\* and only if no scope on the environment chain binds the name; a declared
\* name always evaluates to its bound value.
C7_UndefinedIffUnbound ==
  last.k = "id"
    => /\ (status = "error" /\ msg = "undefined variable: " \o last.sym)
           <=> Resolve(pre.envs, GlobalEnv, last.sym) = 0
       /\ Resolve(pre.envs, GlobalEnv, last.sym) # 0
           => (status = "run" /\ result = LookupVar(pre.envs, GlobalEnv, last.sym))

\* The lines of `lines` written by println, resp. logln, with a number.
Counts == 0..(MaxCallSteps + 10)
PrintlnOf(k) == "[println]: " \o ToString(k)
LoglnOf(k) == "[logln]: " \o ToString(k) \o " "
FromPrintln(lines) == SelectSeq(lines, LAMBDA l : \E k \in Counts : l = PrintlnOf(k))
FromLogln(lines) == SelectSeq(lines, LAMBDA l : \E k \in Counts : l = LoglnOf(k))

\* C8: a closure resolves its free variables in the environment where it was
\* declared, not in the caller's: with f = mk() and g = mk(), the calls of f
\* return 1, 2, 3, ... and the calls of g count from 1 on their own, whatever
\* the callers' scope binds c to, and that c is never changed.
C8_ClosureCapture ==
  /\ FromPrintln(out) = [i \in 1..Len(FromPrintln(out)) |-> PrintlnOf(i)]
  /\ FromLogln(out) = [i \in 1..Len(FromLogln(out)) |-> LoglnOf(i)]
  /\ (last = CallsF /\ Bound(pre.envs, "f"))
       => (status = "run" /\ Len(FromPrintln(out)) = Len(FromPrintln(pre.out)) + 1)
  /\ (last = CallsG /\ Bound(pre.envs, "g"))
       => (status = "run" /\ Len(FromLogln(out)) = Len(FromLogln(pre.out)) + 1)
  /\ Bound(envs, "c") => BoundValue(envs, cells, "c") = [t |-> "num", n |-> 10]

\* f was called twice, then g for the first time, with c bound by the caller.
C8_Witness ==
  /\ last = CallsG
  /\ Bound(pre.envs, "c")
  /\ FromPrintln(pre.out) = <<PrintlnOf(1), PrintlnOf(2)>>
  /\ out = Append(pre.out, LoglnOf(1))

\* The body of the function the global name r is bound to.
BodyOfR == funs[LookupVar(pre.envs, GlobalEnv, "r").f].body

\* C9: a return executed at any depth of nested blocks, branches, loops and
\* try blocks of a function body ends the call with the returned value: no
\* later statement of the body and no further iteration runs.  A return at
\* program top level stops the program with that value.
C9_ReturnEndsCall ==
  /\ (last = CallsR /\ Bound(pre.envs, "r"))
       => /\ status = "run"
          /\ out = pre.out
                   \o (IF BodyOfR = PrintsIndexFirst THEN <<PrintlnOf(0)>> ELSE <<>>)
                   \o <<PrintlnOf(7)>>
  /\ InSeq(last, TopReturns)
       => /\ status = "done"
          /\ result.t = "num" /\ cells[result.a] = 9
          /\ out = pre.out

\* r returned from inside while > for > if > try and the call printed 7.
C9_Witness ==
  /\ last = CallsR
  /\ Bound(pre.envs, "r")
  /\ BodyOfR = ReturnBodies[Len(ReturnBodies)]
  /\ out = Append(pre.out, PrintlnOf(7))

\* What a loop nest prints: the inner loop's lines, then "o", per outer
\* iteration.
InnerLines(kind, act) ==
  CASE kind = "for" /\ act = Break -> <<PrintlnOf(0)>>
    [] kind = "for" /\ act = Continue -> <<PrintlnOf(0), PrintlnOf(2)>>
    [] kind = "while" /\ act = Break -> <<PrintlnOf(1)>>
    [] kind = "while" /\ act = Continue -> <<PrintlnOf(1), PrintlnOf(3)>>
NestLines(kind, act) ==
  InnerLines(kind, act) \o <<"[println]: o">> \o InnerLines(kind, act) \o <<"[println]: o">>

\* C10: break ends and continue skips to the next iteration of the innermost
\* enclosing loop only, also from inside if/else branches, try and catch
\* blocks and nested blocks; the outer loop goes on with the rest of its body
\* and its remaining iterations.
C10_InnermostLoopOnly ==
  \A kind \in InnerKinds, w \in WrapKinds, a \in 1..Len(LoopActs) :
    /\ last = NestedLoop(kind, LoopActs[a], w)
         => (status = "run" /\ out = pre.out \o NestLines(kind, LoopActs[a]))
    /\ (last = NestedInWhile(kind, LoopActs[a], w) /\ ~Bound(pre.envs, "n"))
         => status = "error"
    /\ (/\ last = NestedInWhile(kind, LoopActs[a], w)
        /\ Bound(pre.envs, "n")
        /\ BoundValue(pre.envs, pre.cells, "n") = [t |-> "num", n |-> 0])
         => (status = "run" /\ out = pre.out \o NestLines(kind, LoopActs[a]))

\* A while nest whose inner while continues from a catch block has run.
C10_Witness ==
  /\ last = NestedInWhile("while", Continue, 5)
  /\ Bound(pre.envs, "n")
  /\ out = pre.out \o NestLines("while", Continue)
  /\ Len(out) = 6

\* What N executions of a body print, with i = 0, 1, ..., N-1 in order.
RECURSIVE ForPrints(_, _)
ForPrints(kind, n) ==
  IF n = 0 THEN <<>>
  ELSE ForPrints(kind, n - 1)
       \o (CASE kind \in {"print", "printAdd", "printAssign"} -> <<PrintlnOf(n - 1)>>
             [] kind = "assignPrint" -> <<"[println]: b">>
             [] OTHER -> <<>>)

\* What N executions of a body add to x.
RECURSIVE ForAdds(_, _)
ForAdds(kind, n) ==
  IF n = 0 THEN 0
  ELSE ForAdds(kind, n - 1)
       + (CASE kind \in {"addI", "printAdd"} -> n - 1
            [] kind = "addOne" -> 1
            [] kind = "addMod" -> (n - 1) % 2
            [] OTHER -> 0)

UsesX(kind) == kind \in {"addI", "addOne", "addMod", "printAdd"}

\* C11: a for range(i, N) whose body executes no break, continue, return
\* or error executes the body exactly N times with i = 0, 1, ..., N-1 in
\* that order, for every shape of body, also when the body assigns to i:
\* the prints and the sum in x are those of N executions, and the body's i
\* is the loop variable, so a binding of i outside the loop is untouched.
C11_ForRangeRunsNTimes ==
  (last \in ForLoops /\ (UsesX(KindOf(last)) => Bound(pre.envs, "x")))
    => /\ status = "run"
       /\ out = pre.out \o ForPrints(KindOf(last), last.range.n)
       /\ Bound(pre.envs, "x")
            => BoundValue(envs, cells, "x").n
                 = BoundValue(pre.envs, pre.cells, "x").n
                     + ForAdds(KindOf(last), last.range.n)
       /\ Bound(pre.envs, "i")
            => BoundValue(envs, cells, "i") = BoundValue(pre.envs, pre.cells, "i")

\* A value with a number read by its payload.
Deref(v, cs) == IF v.t = "num" THEN [t |-> "num", n |-> cs[v.a]] ELSE v

\* C12: the catch block of a try statement is evaluated if and only if the
\* try block ended in an error; it then sees errorVar bound to exactly the
\* error's message, in a scope that does not outlive the catch block;
\* changes the try block made to outer variables before the error are kept;
\* without error the statement's result is the try block's result.
C12_TryCatch ==
  \A i \in 1..Len(TryCases) :
    LET c == TryCases[i]
    IN (last = c.stmt /\ \A name \in c.needs : Bound(pre.envs, name))
         => /\ status = "run"
            /\ out = pre.out \o c.prints
            /\ c.res # AnyRes => Deref(result, cells) = c.res
            /\ DOMAIN envs[GlobalEnv].variables = DOMAIN pre.envs[GlobalEnv].variables
            /\ Bound(pre.envs, "x")
                 => BoundValue(envs, cells, "x").n
                      = (IF c.x = Keep THEN BoundValue(pre.envs, pre.cells, "x").n
                         ELSE c.x.n)

\* The k-th scope up the parent chain of env (0 beyond the global scope).
RECURSIVE Up(_, _, _)
Up(es, env, k) ==
  IF k = 0 \/ env = 0 THEN env ELSE Up(es, es[env].parent, k - 1)

\* The distances from env of the scopes on its chain that bind name.
Binders(es, env, name) ==
  {k \in 0..Len(es) : Up(es, env, k) # 0 /\ name \in DOMAIN es[Up(es, env, k)].variables}

\* The nearest scope on the chain of env that binds name.
Nearest(es, env, name) ==
  Up(es, env, CHOOSE k \in Binders(es, env, name) :
                 \A j \in Binders(es, env, name) : k <= j)

\* C13: AssignVar(name, v) on a non-constant name changes exactly one
\* binding, the one of the nearest scope on the parent chain that binds
\* name: no binding is created, no shadowed binding of the name further up
\* and no other name changes; when no scope binds name it fails and every
\* scope is left unchanged.
C13_AssignVarFrame ==
  last.k = "assign"
    => IF Binders(pre.envs, last.env, last.sym) = {}
       THEN status = "panic" /\ envs = pre.envs
       ELSE LET target == Nearest(pre.envs, last.env, last.sym)
            IN last.sym \notin pre.envs[target].constants
                 => /\ status = "run"
                    /\ envs = [pre.envs EXCEPT ![target].variables[last.sym] = Assigned]

\* An assignment made from a scope that does not bind the name, whose parent
\* binds it and shadows a binding of the global scope.
C13_Witness ==
  /\ last.k = "assign"
  /\ status = "run"
  /\ Binders(pre.envs, last.env, last.sym) = {1, 2}
  /\ pre.envs[GlobalEnv].variables[last.sym] = Declared
  /\ envs[pre.envs[last.env].parent].variables[last.sym] = Assigned
  /\ envs[GlobalEnv].variables[last.sym] = Declared

NameLines(names) == [i \in 1..Len(names) |-> "[println]: " \o names[i]]

LineOf(text, k) == 1 + Cardinality({i \in 1..(k - 1) : text[i] = "\n"})
ColOf(text, k) ==
  LET breaks == {i \in 1..(k - 1) : text[i] = "\n"}
      start == IF breaks = {} THEN 0
               ELSE CHOOSE i \in breaks : \A j \in breaks : j <= i
  IN k - start

\* C15: Tokenize terminates on every finite input: every pass of its loop
\* consumes at least one character, so there are no more passes than
\* characters, and it ends either returning the tokens or with the lexical
\* error that names line and column of the unrecognised character it stopped
\* at; it ends in no other way.
C15_TokenizeTerminates ==
  /\ lexer.state \in {"idle", "run", "done", "exit"}
  /\ lexer.iter <= Len(lexer.input)
  /\ lexer.state = "exit"
       => LET k == Len(lexer.input) - Len(lexer.src) + 1
          IN /\ lexer.errLine = LineOf(lexer.input, k)
             /\ lexer.errCol = ColOf(lexer.input, k)

\* No statement list of a node (block, or blocks nested in it) holds nil.
RECURSIVE NoNilIn(_)
NoNilIn(node) ==
  IF "stmts" \in DOMAIN node
  THEN \A i \in 1..Len(node.stmts) : node.stmts[i] # NilStmt /\ NoNilIn(node.stmts[i])
  ELSE IF "parts" \in DOMAIN node
  THEN \A i \in 1..Len(node.parts) : NoNilIn(node.parts[i])
  ELSE TRUE

\* C16: ParseProgram terminates on every finite token sequence with a
\* program or a parse error: every pass of the statement loops of
\* ParseProgram and parseBlockStatement consumes at least one token (so the
\* program loop makes no more passes than there are tokens and no block loop
\* goes on for ever), an `else` at statement start is skipped, and no
\* statement list holds an absent statement.
C16_ParseTerminates ==
  /\ parser.state \in {"idle", "run", "done", "err"}
  /\ parser.iter <= Len(parser.tokens)
  /\ NoNilIn(StmtList("program", parser.body))

\* Two outcomes of a binary operation are the same: both errors, or the
\* same value.
SameOutcome(a, b) ==
  /\ (a.c = "err") <=> (b.c = "err")
  /\ a.c # "err" => (a.c = b.c /\ a = b)

\* C17: for every binary operator the compiler emits an opcode for and
\* every pair of operand kinds among Number, String, Bool and Null, the VM
\* opcode and the AST evaluator give the same outcome: the same value, or
\* an error in both.
C17_VMAgreesWithEvaluator ==
  binop.state = "done" => SameOutcome(binop.ast, binop.vm)

\* C18: for every program the compiler accepts, at every step of VM.Run
\* every popping opcode finds its operands on the stack: sp is never below
\* zero and no pop reads a slot nothing was pushed into.
C18_NoStackUnderflow ==
  vm.state \in {"run", "done", "err", "panic"} =>
    /\ vm.m.sp >= 0
    /\ \A i \in 1..Len(vm.m.pops) : vm.m.pops[i] # Unpushed

\* A pop has taken the last value off the stack.
C18_Witness ==
  /\ vm.state = "run"
  /\ vm.op = OP_POP
  /\ vm.before.sp = 1
  /\ vm.m.sp = 0
  /\ Len(vm.m.pops) = 1

\* The call expression the OP_CALL at offset at of function fn was compiled
\* from.
CallAt(m, fn, at) ==
  LET calls == m.fns[fn].calls
  IN calls[CHOOSE i \in 1..Len(calls) : calls[i].at = at].node

\* The expressions whose value takes no call and changes nothing: literals,
\* variables, properties of variables and binary expressions of these.
RECURSIVE Pure(_)
Pure(e) ==
  \/ e.k \in {"num", "str", "bool", "id"}
  \/ e.k = "member" /\ Pure(e.object)
  \/ e.k = "bin" /\ Pure(e.left) /\ Pure(e.right)

Failed == [t |-> "failed"]

\* The value the language gives a pure expression in the frame on top of m,
\* with the numbers it makes added to cs; Failed when its evaluation ends in
\* an error.
RECURSIVE PureValue(_, _, _)
PureValue(e, m, cs) ==
  CASE e.k = "num" -> [v |-> NumberVal(Len(cs) + 1), cs |-> Append(cs, e.n)]
    [] e.k = "str" -> [v |-> StringVal(e.s), cs |-> cs]
    [] e.k = "bool" -> [v |-> BooleanVal(e.b), cs |-> cs]
    [] e.k = "id" ->
         LET locals == m.fns[Frame(m).fn].locals
         IN IF e.sym \in DOMAIN locals
            THEN [v |-> slot(m, Frame(m).base + locals[e.sym]), cs |-> cs]
            ELSE IF Resolve(m.envs, Globals, e.sym) = 0 THEN [v |-> Failed, cs |-> cs]
            ELSE [v |-> LookupVar(m.envs, Globals, e.sym), cs |-> cs]
    [] e.k = "member" ->
         LET obj == PureValue(e.object, m, cs)
         IN IF obj.v.t = "map" /\ e.property \in ModuleFunctions(obj.v.m)
            THEN [v |-> Function(e.property), cs |-> cs]
            ELSE IF obj.v.t = "map" /\ e.property \in ModuleNumbers(obj.v.m)
            THEN [v |-> NumberVal(Len(cs) + 1), cs |-> Append(cs, e.property)]
            ELSE [v |-> Failed, cs |-> cs]
    [] e.k = "bin" ->
         LET l == PureValue(e.left, m, cs)
             r == PureValue(e.right, m, l.cs)
             o == binaryOp(e.op, l.v, r.v, r.cs)
         IN IF l.v = Failed \/ r.v = Failed THEN [v |-> Failed, cs |-> cs]
            ELSE CASE o.c = "num" ->
                        [v |-> NumberVal(Len(r.cs) + 1), cs |-> Append(r.cs, o.n)]
                   [] o.c = "bool" -> [v |-> BooleanVal(o.b), cs |-> r.cs]
                   [] o.c = "str" -> [v |-> StringVal(o.s), cs |-> r.cs]
                   [] OTHER -> [v |-> Failed, cs |-> cs]

\* The value of a pure expression, a number by its payload.
Expected(e, m) ==
  LET x == PureValue(e, m, m.cells) IN Deref(x.v, x.cs)

\* C19: whenever compiled code executes CALL n, stack[sp-n-1] holds the
\* value of the callee expression and stack[sp-n .. sp-1] hold the values of
\* the n arguments in source order, for every form of argument expression
\* (also arguments that use %, && or ||); on entering a VM function, local
\* slot s (s < n) holds the s-th argument.  The values are checked for the
\* callees and arguments that are pure expressions.
C19_CallLayout ==
  (vm.state \in {"run", "done", "err", "panic"} /\ vm.op = OP_CALL) =>
    LET b == vm.before
        n == vm.arg
        call == CallAt(b, Frame(b).fn, Frame(b).ip)
        At(m, k) == Deref(slot(m, k), m.cells)
    IN /\ n = Len(call.args)
       /\ Pure(call.callee) => At(b, b.sp - n - 1) = Expected(call.callee, b)
       /\ \A i \in 1..n :
            Pure(call.args[i]) => At(b, b.sp - n + i - 1) = Expected(call.args[i], b)
       /\ (vm.state = "run" /\ Len(vm.m.frames) > Len(b.frames)) =>
            \A s \in 0..(n - 1) :
              Pure(call.args[s + 1]) =>
                At(vm.m, Frame(vm.m).base + s) = Expected(call.args[s + 1], b)

\* The latest step executed OP_RET in a frame that is not the outermost one.
ReturnedFromCall ==
  /\ vm.state \in {"run", "done", "err", "panic"}
  /\ vm.op = OP_RET
  /\ Len(vm.before.frames) > 1

\* C20: when RET executes in a frame that is not the outermost one, for
\* every frame base >= 1 the call completes with the callee, its arguments
\* and its locals removed and the return value on top of the stack at index
\* base-1 (sp = base); execution resumes in the caller, and the values of
\* the caller's stack below base-1 are unchanged.
C20_ReturnCleansUp ==
  (ReturnedFromCall /\ Frame(vm.before).base >= 1) =>
    LET b == vm.before
        base == Frame(b).base
    IN /\ vm.state = "run"
       /\ vm.m.sp = base
       /\ slot(vm.m, base - 1) = slot(b, b.sp - 1)
       /\ vm.m.frames = SubSeq(b.frames, 1, Len(b.frames) - 1)
       /\ \A k \in 0..(base - 2) : slot(vm.m, k) = slot(b, k)

\* The latest step executed JUMP_IF_FALSE and popped a value that is not a
\* boolean.
JumpOnNonBool ==
  /\ vm.state \in {"run", "done", "err", "panic"}
  /\ vm.op = OP_JUMP_IF_FALSE
  /\ Len(vm.m.pops) = 1
  /\ vm.m.pops[1] # Unpushed
  /\ vm.m.pops[1].t # "bool"

\* C21: JUMP_IF_FALSE executed with a popped operand that is not a boolean
\* (a number, string, null or function) ends the run with a runtime error:
\* it neither jumps nor falls through.
C21_JumpIfFalseNeedsBool == JumpOnNonBool => vm.state = "err"

\* The node with every variable named from named to: the same program on
\* another variable.
RECURSIVE Renamed(_, _, _)
Renamed(n, from, to) ==
  LET sym(x) == IF x = from THEN to ELSE x
      all(ns) == [i \in 1..Len(ns) |-> Renamed(ns[i], from, to)]
  IN CASE n.k = "id" -> Id(sym(n.sym))
       [] n.k = "import" -> Import(n.path, sym(n.alias))
       [] n.k = "member" -> Member(Renamed(n.object, from, to), n.property)
       [] n.k = "call" -> Call(Renamed(n.callee, from, to), all(n.args))
       [] n.k = "bin" ->
            Bin(n.op, Renamed(n.left, from, to), Renamed(n.right, from, to))
       [] n.k = "decl" -> Decl(sym(n.sym), Renamed(n.value, from, to), n.constant)
       [] OTHER -> n

\* The program with the variables m and math under names tryOptimizeMathCall
\* does not know: its calls of their properties are compiled as ordinary
\* calls (load the variable, GET_PROP, the arguments, CALL).
AsOrdinaryCalls(prog) ==
  [i \in 1..Len(prog) |-> Renamed(Renamed(prog[i], "m", "m2"), "math", "math2")]

\* Whether tryOptimizeMathCall returns true for a call in the node.
RECURSIVE hasMathCall(_)
hasMathCall(n) ==
  CASE n.k = "call" ->
         \/ isMathCall(n)
         \/ hasMathCall(n.callee)
         \/ \E i \in 1..Len(n.args) : hasMathCall(n.args[i])
    [] n.k = "member" -> hasMathCall(n.object)
    [] n.k = "bin" -> hasMathCall(n.left) \/ hasMathCall(n.right)
    [] n.k = "decl" -> hasMathCall(n.value)
    [] OTHER -> FALSE

\* The VM after up to n more passes of the loop of Run.
RECURSIVE RunToEnd(_, _)
RunToEnd(m, n) ==
  IF m.ctl # "ok" \/ n = 0 THEN m
  ELSE RunToEnd(vmStep([m EXCEPT !.pops = <<>>]), n - 1)

\* What a run that left the VM in m gave: how it ended, the error's message,
\* the lines printed and the result.
Outcome(m) ==
  [ctl |-> m.ctl,
   msg |-> IF m.ctl = "err" THEN m.msg ELSE "",
   out |-> m.out,
   res |-> IF m.ctl = "done" THEN Deref(m.res, m.cells) ELSE NilVal]

\* The run of a program with a call compiled to a math opcode has ended.
MathRunEnded ==
  /\ vm.state \in {"done", "err", "panic"}
  /\ \E i \in 1..Len(vm.prog) : hasMathCall(vm.prog[i])

\* C22: compiling a call m.f(args) or math.f(args) to a math opcode gives
\* the same outcome as compiling it as an ordinary call (load the variable,
\* GET_PROP, CALL), for every binding of the variable: unbound, bound to the
\* fmaths module, bound to another module, or bound to another value.
C22_MathOpcodeIsOrdinaryCall ==
  MathRunEnded =>
    Outcome(vm.m) = Outcome(RunToEnd(Run(Compile(AsOrdinaryCalls(vm.prog))), MaxVMSteps))

\* Compile without its call of optimize: the chunk the peephole pass is given.
Unoptimized(prog) ==
  withMain(emit(compileBlock(prog, 1, NewCompiler), <<OP_LOAD_NULL, OP_RET>>))

\* The code of <main>.
MainCode(c) == c.fns[Len(c.fns)].code

\* The peephole pass rewrote something in the chunk of the program.
Rewritten(prog) == MainCode(Compile(prog)) # MainCode(Unoptimized(prog))

\* The values of the slots below sp, a number by its payload.
StackValues(m) ==
  [k \in 0..(m.sp - 1) |-> IF slot(m, k) = Unpushed THEN Unpushed
                           ELSE Deref(slot(m, k), m.cells)]

\* The run of a program whose chunk the peephole pass rewrote has ended.
RewrittenRunEnded ==
  /\ vm.state \in {"done", "err", "panic"}
  /\ Rewritten(vm.prog)

\* The compiler builds no chunk the peephole pass rewrites: compileExpr emits
\* the fast loads for 0, 1, true and false itself, so no CONST of one of
\* them is in a chunk.
NothingToRewrite == vm.state \notin {"idle", "new", "rejected"} => ~Rewritten(vm.prog)

\* C23: for every chunk in which the peephole pass rewrites something,
\* running the rewritten chunk on the VM gives the same result, the same
\* local values and the same operand-stack height as the original chunk
\* (every jump still lands on the instruction it targeted, the code ends at
\* the same final instruction).
C23_OptimizeKeepsMeaning ==
  RewrittenRunEnded =>
    LET original == RunToEnd(Run(Unoptimized(vm.prog)), MaxVMSteps)
    IN /\ Outcome(vm.m) = Outcome(original)
       /\ vm.m.sp = original.sp
       /\ StackValues(vm.m) = StackValues(original)

----------------------------------------------------------------------------
(* HybridEngine (runtime/hybrid.go): Execute routes a node by its kind to   *)
(* the evaluator's functions and counts the routes it took.                 *)

MaxHybridCalls == 3   \* calls of Execute and SetPerformanceMode on one engine

\* The engine NewHybridEngine(globalEnv) returns.  node and calls are not
\* fields of the Go struct: the node Execute was called on last, and the
\* number of calls made on the engine.
NewHybridEngine ==
  [state |-> "run", interpreter |-> GlobalEnv, vmCallCount |-> 0,
   interpreterCallCount |-> 0, performanceMode |-> TRUE,
   loopComplexityThreshold |-> 5, node |-> [k |-> "start"], calls |-> 0]

isMathExpression(expr) ==
  expr.op \in {"+", "-", "*", "/", "%", "==", "!=", "<", ">", "<=", ">="}

isSimpleLoop(h, stmt) ==
  IF stmt.body.k # "block" THEN TRUE
  ELSE Len(stmt.body.stmts) <= h.loopComplexityThreshold

isPureFunction(fn) ==
  IF fn.body.k # "block" THEN FALSE ELSE Len(fn.body.stmts) <= 3

shouldUseVM(h, node) ==
  IF ~h.performanceMode THEN FALSE
  ELSE CASE node.k = "bin" -> isMathExpression(node)
         [] node.k \in {"num", "id"} -> TRUE
         [] node.k = "for" -> isSimpleLoop(h, node)
         [] node.k = "fn" -> isPureFunction(node)
         [] OTHER -> FALSE

\* What a call on the engine leaves: the engine and the evaluator's machine.
Routed(h, st) == [h |-> h, st |-> st]
viaVM(h) == [h EXCEPT !.vmCallCount = @ + 1]
viaInterpreter(h) == [h EXCEPT !.interpreterCallCount = @ + 1]

\* A function declared as a variable instead of a constant.
executeFunctionDeclarationAsVariable(fd, h, st) ==
  LET uf == UserFunction(Len(st.funs) + 1)
      s1 == [st EXCEPT !.funs = Append(@, [params |-> fd.params, body |-> fd.body,
                                           env |-> h.interpreter])]
      s2 == DeclareVar(s1, h.interpreter, fd.name, uf, FALSE)
  IN Routed(h, IF s2.ctl # "ok" THEN s2 ELSE Ok(s2, uf))

executeFunctionDeclaration(fd, h, st) ==
  LET uf == UserFunction(Len(st.funs) + 1)
      s1 == [st EXCEPT !.funs = Append(@, [params |-> fd.params, body |-> fd.body,
                                           env |-> h.interpreter])]
      s2 == DeclareVar(s1, h.interpreter, fd.name, uf, TRUE)
  IN Routed(h, IF s2.ctl # "ok" THEN s2 ELSE Ok(s2, uf))

\* The function of the evaluator a node that is neither a Program nor a
\* FunctionDeclaration is handed to, and the engine as the switch of Execute
\* leaves it.  executeCallExpr calls Evaluate; executeBinaryExprVM calls
\* evalBinaryExpr like the other route; executeLoop calls evalForStatement
\* or evalWhileStatement.
route(node, h) ==
  CASE node.k = "call" -> [h |-> h, fn |-> "Evaluate"]
    [] node.k = "bin" ->
         IF shouldUseVM(h, node) THEN [h |-> viaVM(h), fn |-> "evalBinaryExpr"]
         ELSE [h |-> viaInterpreter(h), fn |-> "evalBinaryExpr"]
    [] node.k = "for" -> [h |-> h, fn |-> "evalForStatement"]
    [] node.k = "while" -> [h |-> h, fn |-> "evalWhileStatement"]
    [] node.k \in {"break", "continue"} -> [h |-> viaInterpreter(h), fn |-> "Evaluate"]
    [] node.k = "try" -> [h |-> viaInterpreter(h), fn |-> "evalTryStatement"]
    [] OTHER -> [h |-> viaInterpreter(h), fn |-> "Evaluate"]

\* The call the route names, on the engine's global environment.
routed(r, node, st) == Routed(r.h, Evaluate(Direct(r.fn, node), r.h.interpreter, st))

RECURSIVE Execute(_, _, _), executeProgram(_, _, _, _)

\* The statement loop of executeProgram from statement i on.
executeProgram(body, i, h, st) ==
  IF i > Len(body) THEN Routed(h, st)
  ELSE LET r == Execute(body[i], h, st)
       IN IF r.st.ctl # "ok" THEN r
          ELSE IF r.st.res.t = "ret" THEN Routed(r.h, Ok(r.st, r.st.res.inner))
          ELSE executeProgram(body, i + 1, r.h, r.st)

Execute(node, h, st) ==
  CASE node.k = "program" -> executeProgram(node.body, 1, h, Ok(st, NilVal))
    [] node.k = "fn" -> executeFunctionDeclaration(node, h, st)
    [] OTHER -> routed(route(node, h), node, st)

\* The nodes Execute is called on: every kind its switch tells apart, with
\* operands that succeed and operands that fail.
HybridPrograms ==
  <<Program(<<>>),
    Program(<<Let("y", Num(1)), Bin("+", Id("y"), Id("x")), Println(Id("y"))>>),
    Program(<<Funct("g", <<>>, Block(<<Return(Num(7))>>)), Inc("x"),
              Bin("&&", Call0("g"), Bool(TRUE)), Return(Call0("g")), Println(Num(9))>>),
    Program(<<Bin("-", Num(4), Num(1)), Bin("+", Failing, Num(1)), Println(Num(9))>>),
    Program(<<ForRange("addI", 2), While(Bin("<", Id("x"), Num(3)), Block(<<Inc("x")>>)),
              Try(Block(<<Failing>>), "e", Block(<<Inc("x")>>)), Id("x")>>)>>
HybridNodes ==
  <<Let("x", Num(0)), Funct("f", <<"a">>, Block(<<Inc("x"), Println(Id("a"))>>)),
    Call(Id("f"), <<Num(2)>>), Call0("nope"),
    Bin("+", Id("x"), Num(1)), Bin("<", Id("x"), Str("s")), Bin("||", Id("x"), Bool(FALSE)),
    ForRange("addOne", 2), ForRange("print", 2),
    While(Bin("<", Id("x"), Num(2)), Block(<<Inc("x"), Println(Id("x"))>>)),
    Break, Continue,
    Try(Block(<<Failing>>), "e", Block(<<Println(Id("e"))>>)),
    Asg("x", Num(5)), Id("x"), Num(3), Return(Id("x"))>> \o HybridPrograms

\* How a call that left the machine in st ended, seen from the caller.
Ended(st) ==
  CASE st.ctl = "err" -> "error"
    [] st.ctl = "panic" -> "panic"
    [] st.ctl = "hang" -> "hang"
    [] OTHER -> "run"

\* The variables after Execute(node) left the engine and the machine in r.
Executed(r, node) ==
  /\ envs' = r.st.envs
  /\ cells' = r.st.cells
  /\ funs' = r.st.funs
  /\ out' = r.st.out
  /\ msg' = r.st.msg
  /\ status' = Ended(r.st)
  /\ result' = r.st.res
  /\ hybrid' = [r.h EXCEPT !.node = node, !.calls = @ + 1]
  /\ last' = node
  /\ pre' = [envs |-> envs, cells |-> cells, out |-> out]
  /\ steps' = steps + 1
  /\ UNCHANGED <<scen, lexer, parser, binop, vm>>

\* One call of Execute on the engine; a returned error leaves it usable.
HybridExecute(node) ==
  /\ status \in {"run", "error"}
  /\ hybrid.calls < MaxHybridCalls
  /\ Executed(Execute(node, hybrid, Machine), node)

SetPerformanceMode(enabled) ==
  /\ status \in {"run", "error"}
  /\ hybrid.calls < MaxHybridCalls
  /\ hybrid.performanceMode # enabled
  /\ hybrid' = [hybrid EXCEPT !.performanceMode = enabled, !.calls = @ + 1]
  /\ UNCHANGED <<interp, lexer, parser, binop, vm>>

NextHybrid ==
  \/ \E i \in 1..Len(HybridNodes) : HybridExecute(HybridNodes[i])
  \/ \E enabled \in BOOLEAN : SetPerformanceMode(enabled)

SpecHybrid ==
  /\ InterpInit({"hybrid"})
  /\ lexer = LexIdle
  /\ parser = ParseIdle
  /\ binop = BinopIdle
  /\ vm = VMIdle
  /\ hybrid = NewHybridEngine
  /\ [][NextHybrid]_vars

\* C24: whatever the kind of the node, the mode of the engine and the calls
\* made on it before, Execute(node) leaves the environments, the numbers, the
\* functions and the output as Evaluate(node) on the global environment
\* leaves them from the same state, and returns the same value or error.
C24_ExecuteIsEvaluate ==
  [][steps' # steps =>
       LET ev == Evaluate(hybrid'.node, GlobalEnv, Machine)
       IN /\ envs' = ev.envs
          /\ cells' = ev.cells
          /\ funs' = ev.funs
          /\ out' = ev.out
          /\ result' = ev.res
          /\ msg' = ev.msg
          /\ status' = Ended(ev)]_vars

\* A program was executed whose binary expressions took both routes, that
\* changed the global environment and printed.
C24_Witness ==
  /\ hybrid.node.k = "program"
  /\ hybrid.vmCallCount > 0
  /\ hybrid.interpreterCallCount > 0
  /\ status = "run"
  /\ pre.envs # envs
  /\ pre.out # out

\* A program of ForPrograms has run to its end.
ForRangeRunEnded ==
  /\ vm.state \in {"done", "err", "panic"}
  /\ vm.prog \in ForPrograms

\* C25: a compiled for range(i, N) whose body prints i ends normally and has
\* printed what the evaluator prints for the same program: 0, 1, ..., N-1,
\* one line per execution of the body.
C25_ForRangeCountsFromZero ==
  ForRangeRunEnded =>
    /\ vm.state = "done"
    /\ vm.m.out = evalProgram(Program(vm.prog), GlobalEnv, Machine).out

\* The slots of m from the top of the stack up that hold a value: pop clears
\* the slot it reads and RET cuts the stack at sp, so these are the locals
\* STORE_LOCAL, INCREMENT_LOCAL and FOR_LOOP_NEXT stored above the top.
StoredAbove(m) ==
  {k \in m.sp..(Len(m.stack) - 1) : m.stack[k + 1] # Unpushed}

\* The slots base .. base+localsMax-1 of the frame m is executing.
LocalSlots(m) ==
  LET fr == Frame(m)
  IN fr.base..(fr.base + m.fns[fr.fn].localsMax - 1)

\* The slots the latest pass of the loop pushed a temporary into, among the
\* slots of the executing frame that held a stored local before the pass.
LocalsPushedOver ==
  IF vm.state \notin {"run", "done", "err", "panic"} \/ vm.op = NoOpcode THEN {}
  ELSE (vm.m.live \ vm.before.live) \cap StoredAbove(vm.before) \cap LocalSlots(vm.before)

\* C26: no pass of the loop pushes a temporary into a slot of the executing
\* frame's locals that holds a stored local.
C26_TemporariesSpareLocals == LocalsPushedOver = {}

FastLoads == {OP_LOAD_CONST_0, OP_LOAD_CONST_1, OP_LOAD_TRUE, OP_LOAD_FALSE, OP_LOAD_NULL}

\* The latest pass of the loop executed an opcode whose only access to the
\* stack array that can fail is the write of a push: CONST, a fast load, or
\* RET in a called function once its pop has read the return value.
PassPushed ==
  /\ vm.state \in {"run", "done", "err", "panic"}
  /\ \/ vm.op \in FastLoads \cup {OP_CONST}
     \/ /\ vm.op = OP_RET
        /\ Len(vm.before.frames) > 1
        /\ vm.before.sp >= 1
        /\ vm.before.sp <= vm.before.len

\* C27: the write of a push is inside the stack array, so a pass that only
\* pushes never ends in an index out of range.
C27_PushWritesInside == PassPushed => vm.state # "panic"

\* The machine as the statement evaluated last found it (the pools of the
\* loop scenarios declare no function).
Before == [Machine EXCEPT !.envs = pre.envs, !.cells = pre.cells, !.out = pre.out]

\* What the variables of the environments es hold, numbers by value.
Held(es, cs) ==
  [e \in DOMAIN es |-> [n \in DOMAIN es[e].variables |-> Deref(es[e].variables[n], cs)]]

\* The count the range of the for statement evaluated last came to.
CountOfLast ==
  LET rng == Evaluate(last.range, GlobalEnv, Before)
  IN rng.cells[rng.res.a]

NonPositiveLoopRan ==
  /\ scen = "nonpos"
  /\ last.k = "for"
  /\ status = "run"
  /\ CountOfLast <= 0

\* C28: a for range whose count is 0 or negative prints nothing and leaves
\* every variable of every scope that existed before it as it was.
C28_NonPositiveRangeIsNoOp ==
  NonPositiveLoopRan =>
    /\ out = pre.out
    /\ \A e \in DOMAIN pre.envs : Held(envs, cells)[e] = Held(pre.envs, pre.cells)[e]

\* A loop of the pool was evaluated with the names it uses bound.
HoldingLoopRan ==
  /\ scen = "held"
  /\ last \in {HoldByAssign, HoldByCall}
  /\ Bound(pre.envs, "y")
  /\ last = HoldByCall => Bound(pre.envs, "keep")

\* C29: the value of i stored in y during iteration 0 still reads 0 in the
\* iterations after it (each of the three prints 0) and after the loop.
C29_StoredCounterKeepsValue ==
  HoldingLoopRan =>
    /\ status = "run"
    /\ out = pre.out \o <<PrintlnOf(0), PrintlnOf(0), PrintlnOf(0)>>
    /\ BoundValue(envs, cells, "y") = [t |-> "num", n |-> 0]

\* A statement that evaluates an anonymous function expression in the
\* global scope was evaluated, any declared name of it being free.
AnonEvaluated ==
  /\ scen = "anon"
  /\ InSeq(last, AnonInGlobal)
  /\ last.k = "decl" => ~Bound(pre.envs, last.sym)

\* The names the statement evaluated last may bind: the declared name of a
\* declaration, none otherwise.
DeclaredBy(stmt) == IF stmt.k = "decl" THEN {stmt.sym} ELSE {}

\* C30: evaluating an anonymous function expression succeeds, however many
\* were evaluated in the scope before, and binds no name: the global scope
\* gains at most the name of the declaration the expression initialises.
C30_AnonymousBindsNothing ==
  AnonEvaluated =>
    /\ status = "run"
    /\ DOMAIN envs[GlobalEnv].variables
         = DOMAIN pre.envs[GlobalEnv].variables \cup DeclaredBy(last)

====
